---- MODULE Spec2Model ----
(***************************************************************************)
(* A model of cc-vec's query compilation layer (CrawlQueryBuilder in       *)
(* src/src/cc_vec/core/cc_athena_client.py) and of the public operations   *)
(* that call it (src/src/cc_vec/lib).                                      *)
(*                                                                         *)
(* A Python str is a sequence of one-character strings.  SQL text is a     *)
(* sequence of pieces whose concatenation is the Python string: the text   *)
(* the code writes itself (column names, keywords, punctuation) is kept as *)
(* a piece per f-string fragment, a single quote is always a piece of its  *)
(* own, and every value that comes from the filter is kept character by    *)
(* character.                                                              *)
(***************************************************************************)
EXTENDS Integers, Sequences, FiniteSets, TLC

VARIABLES pc, call, ret

vars == <<pc, call, ret>>

(***************************************************************************)
(* Characters and the str methods the code uses.                           *)
(***************************************************************************)
Lowercase ==
    <<"a","b","c","d","e","f","g","h","i","j","k","l","m",
      "n","o","p","q","r","s","t","u","v","w","x","y","z">>

Uppercase ==
    <<"A","B","C","D","E","F","G","H","I","J","K","L","M",
      "N","O","P","Q","R","S","T","U","V","W","X","Y","Z">>

Digits == <<"0","1","2","3","4","5","6","7","8","9">>

Range(s) == { s[i] : i \in 1..Len(s) }

IsLower(c) == c \in Range(Lowercase)

IsUpper(c) == c \in Range(Uppercase)

IsAlpha(c) == IsLower(c) \/ IsUpper(c)

IsDigit(c) == c \in Range(Digits)

IsAlnum(c) == IsAlpha(c) \/ IsDigit(c)

\* \w of the re module
IsWord(c) == IsAlnum(c) \/ c = "_"

\* \s of the re module
IsSpace(c) == c \in {" ", "\t", "\n", "\r"}

IndexIn(c, s) == CHOOSE i \in 1..Len(s) : s[i] = c

lower(s) ==
    [i \in 1..Len(s) |->
        IF IsUpper(s[i]) THEN Lowercase[IndexIn(s[i], Uppercase)] ELSE s[i]]

upper(s) ==
    [i \in 1..Len(s) |->
        IF IsLower(s[i]) THEN Uppercase[IndexIn(s[i], Lowercase)] ELSE s[i]]

\* str.replace(old, new) for a one-character old
RECURSIVE replace(_, _, _)
replace(s, old, new) ==
    IF s = <<>> THEN <<>>
    ELSE (IF Head(s) = old THEN new ELSE <<Head(s)>>) \o replace(Tail(s), old, new)

RECURSIVE lstrip(_)
lstrip(s) == IF s # <<>> /\ IsSpace(Head(s)) THEN lstrip(Tail(s)) ELSE s

RECURSIVE rstrip(_)
rstrip(s) ==
    IF s # <<>> /\ IsSpace(s[Len(s)]) THEN rstrip(SubSeq(s, 1, Len(s) - 1)) ELSE s

strip(s) == lstrip(rstrip(s))

\* str.count and the `in` operator for a one-character needle
count(s, c) == Cardinality({ i \in 1..Len(s) : s[i] = c })

AllChars(s, P(_)) == \A i \in 1..Len(s) : P(s[i])

(***************************************************************************)
(* The pieces of the re module the code uses.                              *)
(***************************************************************************)
\* the literal `sub` occurs in s at position i
At(sub, s, i) ==
    /\ i >= 1
    /\ i + Len(sub) - 1 <= Len(s)
    /\ SubSeq(s, i, i + Len(sub) - 1) = sub

\* re.search(literal, s)
Search(sub, s) == \E i \in 1..Len(s) : At(sub, s, i)

\* \b between s[i] and s[i+1], i in 0..Len(s)
WordBoundary(s, i) ==
    (i >= 1 /\ IsWord(s[i])) # (i + 1 <= Len(s) /\ IsWord(s[i + 1]))

\* re.search(r"\bWORD\b", s, re.IGNORECASE), word given in lower case
SearchWordI(word, s) ==
    \E i \in 1..Len(s) :
        /\ At(word, lower(s), i)
        /\ WordBoundary(s, i - 1)
        /\ WordBoundary(s, i + Len(word) - 1)

\* `$` also matches just before a trailing newline: a pattern whose
\* characters exclude the newline is matched against the chomped string
Chomp(s) ==
    IF s # <<>> /\ s[Len(s)] = "\n" THEN SubSeq(s, 1, Len(s) - 1) ELSE s

(***************************************************************************)
(* Results of a call: a returned value or a raised exception.              *)
(***************************************************************************)
Return(v) == [kind |-> "return", value |-> v]

Raise(exc, msg, v) == [kind |-> "raise", exc |-> exc, msg |-> msg, value |-> v]

NotCalled == [kind |-> "none"]

(***************************************************************************)
(* CrawlQueryBuilder._escape_sql_string                                    *)
(***************************************************************************)
UNION_KEYWORD == <<"u","n","i","o","n">>

DDL_DML_KEYWORDS ==
    { <<"d","r","o","p">>,
      <<"d","e","l","e","t","e">>,
      <<"i","n","s","e","r","t">>,
      <<"u","p","d","a","t","e">>,
      <<"a","l","t","e","r">>,
      <<"c","r","e","a","t","e">>,
      <<"e","x","e","c">>,
      <<"e","x","e","c","u","t","e">> }

\* re.search(r"\bWORD\b", s) without re.IGNORECASE, for the upper-case pattern
SearchWordUpper(word, s) ==
    \E i \in 1..Len(s) :
        /\ At(upper(word), s, i)
        /\ WordBoundary(s, i - 1)
        /\ WordBoundary(s, i + Len(word) - 1)

\* the dangerous patterns searched without re.IGNORECASE
escape_dangerous_patterns_case_sensitive(value) ==
    \/ Search(<<";">>, value)
    \/ Search(<<"-","-">>, value)
    \/ Search(<<"/","*">>, value)
    \/ Search(<<"*","/">>, value)
    \/ SearchWordUpper(UNION_KEYWORD, value)
    \/ \E k \in DDL_DML_KEYWORDS : SearchWordUpper(k, value)

\* for pattern in dangerous_patterns: re.search(pattern, value, re.IGNORECASE)
escape_dangerous_patterns(value) ==
    \/ Search(<<";">>, value)
    \/ Search(<<"-","-">>, value)
    \/ Search(<<"/","*">>, value)
    \/ Search(<<"*","/">>, value)
    \/ SearchWordI(UNION_KEYWORD, value)
    \/ \E k \in DDL_DML_KEYWORDS : SearchWordI(k, value)

\* [a-zA-Z0-9._\-/%\s:,']
EscapeAllowed(c) ==
    IsAlnum(c) \/ IsSpace(c) \/ c \in {".", "_", "-", "/", "%", ":", ",", "'"}

_escape_sql_string(value) ==
    IF escape_dangerous_patterns(value)
    THEN Raise("ValueError", "String contains dangerous pattern", value)
    ELSE LET escaped == replace(value, "'", <<"'", "'">>)
         IN  IF ~AllChars(escaped, EscapeAllowed)
             THEN Raise("ValueError", "String contains invalid characters", value)
             ELSE Return(escaped)

(***************************************************************************)
(* Bounded input strings.                                                  *)
(***************************************************************************)
MaxStringLen == 2

Strings(alphabet, n) == UNION { [1..k -> alphabet] : k \in 0..n }

capitalize(s) == IF s = <<>> THEN s ELSE upper(<<Head(s)>>) \o Tail(s)

Spellings(s) == { s, upper(s), capitalize(s) }

EscapeAlphabet == {"a", "Z", "7", "_", " ", ";", "-", "/", "*", "'", "?", "."}

EscapeAffixes == { <<>>, <<" ">>, <<"_">>, <<"x">>, <<".">>, <<"'">>, <<"-">> }

EscapeInputs ==
    Strings(EscapeAlphabet, MaxStringLen)
    \cup { pre \o w \o suf :
             pre \in EscapeAffixes, suf \in EscapeAffixes,
             w \in UNION { Spellings(k) : k \in DDL_DML_KEYWORDS \cup {UNION_KEYWORD} } }

(***************************************************************************)
(* Specification of one call of _escape_sql_string.                        *)
(***************************************************************************)
InitEscape ==
    /\ pc = "call"
    /\ call \in { [fn |-> "_escape_sql_string", value |-> v] : v \in EscapeInputs }
    /\ ret = NotCalled

CallEscape ==
    /\ pc = "call"
    /\ call.fn = "_escape_sql_string"
    /\ ret' = _escape_sql_string(call.value)
    /\ pc' = "done"
    /\ UNCHANGED call

NextEscape == CallEscape

SpecEscape == InitEscape /\ [][NextEscape]_vars


(***************************************************************************)
(* C2: _escape_sql_string raises a validation error for every string that  *)
(* contains a statement separator (a semicolon), a comment marker (two     *)
(* dashes, or a slash and a star) or a DDL/DML keyword (a word of the list *)
(* DROP, DELETE, INSERT, UPDATE,                                           *)
(* ALTER, CREATE, EXEC, EXECUTE standing as a word of its own) in any      *)
(* letter case; it never returns an escaped form of such a string.         *)
(***************************************************************************)
C2_HasSeparator(v) == \E i \in 1..Len(v) : v[i] = ";"

C2_HasCommentMarker(v) ==
    \E i \in 1..(Len(v) - 1) :
        \/ v[i] = "-" /\ v[i + 1] = "-"
        \/ v[i] = "/" /\ v[i + 1] = "*"

C2_HasKeyword(v) ==
    \E i \in 1..Len(v) : \E j \in i..Len(v) :
        /\ lower(SubSeq(v, i, j)) \in DDL_DML_KEYWORDS
        /\ i = 1 \/ ~IsWord(v[i - 1])
        /\ j = Len(v) \/ ~IsWord(v[j + 1])

SELECT_KEYWORD == <<"s","e","l","e","c","t">>

\* re.search(r"UNION\s+SELECT", s, re.IGNORECASE)
SearchUnionSelect(s) ==
    \E i \in 1..Len(s) : \E j \in (i + Len(UNION_KEYWORD) + 1)..Len(s) :
        /\ At(UNION_KEYWORD, lower(s), i)
        /\ AllChars(SubSeq(s, i + Len(UNION_KEYWORD), j - 1), IsSpace)
        /\ At(SELECT_KEYWORD, lower(s), j)

\* for pattern in dangerous_patterns: re.search(pattern, custom_filter, re.IGNORECASE)
custom_dangerous_patterns(custom_filter) ==
    \/ \E k \in DDL_DML_KEYWORDS : SearchWordI(k, custom_filter)
    \/ Search(<<";">>, custom_filter)
    \/ Search(<<"-","-">>, custom_filter)
    \/ Search(<<"/","*">>, custom_filter)
    \/ Search(<<"*","/">>, custom_filter)
    \/ Search(<<"x","p","_">>, lower(custom_filter))
    \/ Search(<<"s","p","_">>, lower(custom_filter))
    \/ SearchUnionSelect(custom_filter)
    \/ Search(<<"@","@">>, custom_filter)

\* (=|!=|<|>|<=|>=|LIKE|IN)
CustomOperators ==
    { <<"=">>, <<"!","=">>, <<"<">>, <<">">>, <<"<","=">>, <<">","=">>,
      <<"L","I","K","E">>, <<"I","N">> }

\* ['"]
IsQuote(c) == c \in {"'", "\""}

\* [a-zA-Z0-9._\-/%\s,()]
CustomLiteralChar(c) ==
    IsAlnum(c) \/ IsSpace(c) \/ c \in {".", "_", "-", "/", "%", ",", "(", ")"}

\* ['"]?[a-zA-Z0-9._\-/%\s,()]+['"]?$
CustomLiteralMatch(r) ==
    \E q1 \in {0, 1} : \E q2 \in {0, 1} :
        /\ Len(r) - q1 - q2 >= 1
        /\ q1 = 1 => IsQuote(r[1])
        /\ q2 = 1 => IsQuote(r[Len(r)])
        /\ AllChars(SubSeq(r, 1 + q1, Len(r) - q2), CustomLiteralChar)

\* re.match(r'^[a-zA-Z_][a-zA-Z0-9_]*\s*(=|!=|<|>|<=|>=|LIKE|IN)\s*...$', s):
\* the identifier ends at a, the operator is s[b..c], the literal starts at d
CustomFormatMatch(s) ==
    \E a \in 1..Len(s) : \E b \in (a + 1)..Len(s) :
    \E c \in b..Len(s) : \E d \in (c + 1)..Len(s) :
        /\ IsAlpha(s[1]) \/ s[1] = "_"
        /\ AllChars(SubSeq(s, 2, a), IsWord)
        /\ AllChars(SubSeq(s, a + 1, b - 1), IsSpace)
        /\ SubSeq(s, b, c) \in CustomOperators
        /\ AllChars(SubSeq(s, c + 1, d - 1), IsSpace)
        /\ CustomLiteralMatch(SubSeq(s, d, Len(s)))

_validate_custom_filter(custom_filter) ==
    IF custom_dangerous_patterns(custom_filter)
    THEN Raise("ValueError", "Custom filter contains dangerous pattern", custom_filter)
    ELSE IF ~CustomFormatMatch(strip(custom_filter))
         THEN Raise("ValueError", "Custom filter format is invalid", custom_filter)
         ELSE Return(strip(custom_filter))

(***************************************************************************)
(* Specification of one call of _validate_custom_filter.                   *)
(***************************************************************************)
CustomIdentifiers == { <<>>, <<"a">>, <<"_","b","1">>, <<"1","a">>, <<"s","p","_","a">> }

CustomBlanks == { <<>>, <<" ">> }

CustomOperatorInputs ==
    CustomOperators \cup { <<>>, <<"=","=">>, <<"l","i","k","e">>, <<"O","R">> }

CustomLiteralInputs ==
    { <<>>,
      <<"1">>,
      <<"'","x","'">>,
      <<"'","x">>,
      <<"x","'">>,
      <<"\"","x","'">>,
      <<"'","x"," ","y","'">>,
      <<"'","x","'","y","'">>,
      <<"1"," ","b">>,
      <<"1"," ","O","R"," ","b"," ","I","N"," ","(","2",")">>,
      <<"(","1",",","2",")">>,
      <<"1",";">>,
      <<"1"," ","-","-">>,
      <<"@","@","v">>,
      <<"1"," ","u","n","i","o","n"," ","S","E","L","E","C","T"," ","2">>,
      <<"1"," ","d","r","o","p"," ","x">>,
      <<"'","x","'"," ">> }

CustomAlphabet == {"a", "1", "=", "'", " "}

CustomInputs ==
    Strings(CustomAlphabet, MaxStringLen + 2)
    \cup { i \o w1 \o o \o w2 \o l :
             i \in CustomIdentifiers, w1 \in CustomBlanks, o \in CustomOperatorInputs,
             w2 \in CustomBlanks, l \in CustomLiteralInputs }

InitCustom ==
    /\ pc = "call"
    /\ call \in { [fn |-> "_validate_custom_filter", custom_filter |-> v] :
                    v \in CustomInputs }
    /\ ret = NotCalled

CallCustom ==
    /\ pc = "call"
    /\ call.fn = "_validate_custom_filter"
    /\ ret' = _validate_custom_filter(call.custom_filter)
    /\ pc' = "done"
    /\ UNCHANGED call

NextCustom == CallCustom

SpecCustom == InitCustom /\ [][NextCustom]_vars

(***************************************************************************)
(* C3: _validate_custom_filter accepts a custom condition only if it has   *)
(* the shape of exactly one column identifier, one comparison operator and *)
(* one literal (a quoted string whose two quotes are the same and which    *)
(* holds no quote, or one unquoted token); every other condition is        *)
(* rejected with a validation error.                                       *)
(***************************************************************************)
C3_IsIdentifier(s) ==
    /\ s # <<>>
    /\ IsAlpha(s[1]) \/ s[1] = "_"
    /\ AllChars(s, IsWord)

C3_IsLiteral(s) ==
    \/ /\ Len(s) >= 2
       /\ IsQuote(s[1])
       /\ s[Len(s)] = s[1]
       /\ \A i \in 2..(Len(s) - 1) : ~IsQuote(s[i])
    \/ /\ s # <<>>
       /\ \A i \in 1..Len(s) : ~IsQuote(s[i]) /\ ~IsSpace(s[i])

C3_StrictShape(s) ==
    \E a \in 1..Len(s) : \E b \in (a + 1)..Len(s) :
    \E c \in b..Len(s) : \E d \in (c + 1)..Len(s) :
        /\ C3_IsIdentifier(SubSeq(s, 1, a))
        /\ AllChars(SubSeq(s, a + 1, b - 1), IsSpace)
        /\ SubSeq(s, b, c) \in CustomOperators
        /\ AllChars(SubSeq(s, c + 1, d - 1), IsSpace)
        /\ C3_IsLiteral(SubSeq(s, d, Len(s)))

C3_OnlyStrictShapeAccepted ==
    (pc = "done" /\ call.fn = "_validate_custom_filter" /\ ret.kind = "return")
    => C3_StrictShape(strip(call.custom_filter))

(***************************************************************************)
(* Optional values: None, or a value.                                      *)
(***************************************************************************)
None == <<>>

Some(v) == <<v>>

\* `if x:` for an optional str
Truthy(o) == o # None /\ o[1] # <<>>

(***************************************************************************)
(* CrawlQueryBuilder._parse_url_pattern                                    *)
(***************************************************************************)
\* re.sub(r'^(https?|ftp)://', '', sql_pattern, flags=re.IGNORECASE)
Protocols ==
    { <<"h","t","t","p",":","/","/">>,
      <<"h","t","t","p","s",":","/","/">>,
      <<"f","t","p",":","/","/">> }

StripProtocol(s) ==
    IF \E p \in Protocols : At(p, lower(s), 1)
    THEN LET p == CHOOSE p \in Protocols : At(p, lower(s), 1)
         IN  SubSeq(s, Len(p) + 1, Len(s))
    ELSE s

\* [a-z0-9-] under re.IGNORECASE
LabelChar(c) == IsAlnum(c) \/ c = "-"

\* [a-z0-9.-] under re.IGNORECASE
DottedLabelChar(c) == IsAlnum(c) \/ c = "-" \/ c = "."

\* . of the re module
NotNewline(c) == c # "\n"

\* ([a-z0-9-]+)
IsLabel(s) == s # <<>> /\ AllChars(s, LabelChar)

\* ([a-z0-9.-]+)
IsDottedLabel(s) == s # <<>> /\ AllChars(s, DottedLabelChar)

\* ([a-z]{2,})
IsTld(s) == Len(s) >= 2 /\ AllChars(s, IsAlpha)

WWW_DOT == <<"w","w","w",".">>

\* the lengths (www\.)? can take at position i of t
WwwLengths(t, i) == {0} \cup (IF At(WWW_DOT, lower(t), i) THEN {Len(WWW_DOT)} ELSE {})

\* re.match(r'^%\.([a-z0-9-]+)\.([a-z]{2,})$', s, re.IGNORECASE): the groups
\* of every way to match; the character classes leave at most one
SubdomainOnlyMatch(s) ==
    LET t == Chomp(s)
    IN  { [domain |-> SubSeq(t, 3, k - 1), tld |-> SubSeq(t, k + 1, Len(t))] :
            k \in { k \in 4..Len(t) :
                      /\ At(<<"%", ".">>, t, 1)
                      /\ t[k] = "."
                      /\ IsLabel(SubSeq(t, 3, k - 1))
                      /\ IsTld(SubSeq(t, k + 1, Len(t))) } }

\* re.match(r'^%?\.([a-z]{2,})$', s, re.IGNORECASE)
TldOnlyMatch(s) ==
    LET t == Chomp(s)
    IN  { [tld |-> SubSeq(t, k + 1, Len(t))] :
            k \in { k \in 1..2 :
                      /\ k <= Len(t)
                      /\ t[k] = "."
                      /\ k = 2 => t[1] = "%"
                      /\ IsTld(SubSeq(t, k + 1, Len(t))) } }

\* re.match(r'^(www\.)?([a-z0-9-]+)\.([a-z]{2,})$', s, re.IGNORECASE)
ExactDomainMatch(s) ==
    LET t == Chomp(s)
    IN  { [has_www |-> g[1] > 0,
           domain |-> SubSeq(t, g[1] + 1, g[2] - 1),
           tld |-> SubSeq(t, g[2] + 1, Len(t))] :
            g \in { g \in WwwLengths(t, 1) \X (1..Len(t)) :
                      /\ t[g[2]] = "."
                      /\ IsLabel(SubSeq(t, g[1] + 1, g[2] - 1))
                      /\ IsTld(SubSeq(t, g[2] + 1, Len(t))) } }

\* re.match(r'^%([a-z0-9.-]+)\.([a-z]{2,})$', s, re.IGNORECASE)
PrefixWildcardMatch(s) ==
    LET t == Chomp(s)
    IN  { [domain_part |-> SubSeq(t, 2, k - 1), tld |-> SubSeq(t, k + 1, Len(t))] :
            k \in { k \in 3..Len(t) :
                      /\ t[1] = "%"
                      /\ t[k] = "."
                      /\ IsDottedLabel(SubSeq(t, 2, k - 1))
                      /\ IsTld(SubSeq(t, k + 1, Len(t))) } }

\* re.match(r'^%\.(www\.)?([a-z0-9-]+)\.([a-z]{2,})$', s, re.IGNORECASE)
SubdomainWildcardMatch(s) ==
    LET t == Chomp(s)
    IN  { [has_www |-> g[1] > 0,
           domain |-> SubSeq(t, 3 + g[1], g[2] - 1),
           tld |-> SubSeq(t, g[2] + 1, Len(t))] :
            g \in { g \in WwwLengths(t, 3) \X (1..Len(t)) :
                      /\ At(<<"%", ".">>, t, 1)
                      /\ t[g[2]] = "."
                      /\ IsLabel(SubSeq(t, 3 + g[1], g[2] - 1))
                      /\ IsTld(SubSeq(t, g[2] + 1, Len(t))) } }

\* re.match(r'^(www\.)?([a-z0-9-]+)\.([a-z]{2,})(/.*)$', s, re.IGNORECASE)
DomainWithPathMatch(s) ==
    LET t == Chomp(s)
    IN  { [has_www |-> g[1] > 0,
           domain |-> SubSeq(t, g[1] + 1, g[2] - 1),
           tld |-> SubSeq(t, g[2] + 1, g[3] - 1),
           path |-> SubSeq(t, g[3], Len(t))] :
            g \in { g \in WwwLengths(t, 1) \X (1..Len(t)) \X (1..Len(t)) :
                      /\ g[2] < g[3]
                      /\ t[g[2]] = "."
                      /\ t[g[3]] = "/"
                      /\ IsLabel(SubSeq(t, g[1] + 1, g[2] - 1))
                      /\ IsTld(SubSeq(t, g[2] + 1, g[3] - 1))
                      /\ AllChars(SubSeq(t, g[3], Len(t)), NotNewline) } }

\* re.match(r'^%\.([a-z0-9-]+)\.([a-z]{2,})(/.*)$', s, re.IGNORECASE)
SubdomainWithPathMatch(s) ==
    LET t == Chomp(s)
    IN  { [domain |-> SubSeq(t, 3, g[1] - 1),
           tld |-> SubSeq(t, g[1] + 1, g[2] - 1),
           path |-> SubSeq(t, g[2], Len(t))] :
            g \in { g \in (1..Len(t)) \X (1..Len(t)) :
                      /\ g[1] < g[2]
                      /\ At(<<"%", ".">>, t, 1)
                      /\ t[g[1]] = "."
                      /\ t[g[2]] = "/"
                      /\ IsLabel(SubSeq(t, 3, g[1] - 1))
                      /\ IsTld(SubSeq(t, g[1] + 1, g[2] - 1))
                      /\ AllChars(SubSeq(t, g[2], Len(t)), NotNewline) } }

\* the match object: the groups of the one way to match
Groups(matches) == CHOOSE g \in matches : TRUE

\* result = {'tld': None, 'registered_domain': None, 'host_names': [],
\*           'path': None, 'use_fallback': False, 'reason': None}
InitialResult ==
    [tld |-> None, registered_domain |-> None, host_names |-> <<>>,
     path |-> None, use_fallback |-> FALSE, reason |-> "None"]

\* a fallback that sets the reason and forgets the flag
Fallback_without_flag(reason) == [InitialResult EXCEPT !.reason = reason]

\* result['use_fallback'] = True; result['reason'] = reason; return result
Fallback(reason) ==
    [InitialResult EXCEPT !.use_fallback = TRUE, !.reason = reason]

DOT == <<".">>

\* an exact domain that always lists both variants
ExactDomainHostNames_both(has_www, full_domain) ==
    <<full_domain, WWW_DOT \o full_domain>>

\* if has_www: [f"www.{full_domain}"] else: [full_domain, f"www.{full_domain}"]
ExactDomainHostNames(has_www, full_domain) ==
    IF has_www
    THEN <<WWW_DOT \o full_domain>>
    ELSE <<full_domain, WWW_DOT \o full_domain>>

\* if has_www: [f"www.{full_domain}"] else: [full_domain]
PathHostNames(has_www, full_domain) ==
    IF has_www THEN <<WWW_DOT \o full_domain>> ELSE <<full_domain>>

_parse_url_pattern(pattern) ==
    LET sql_pattern == StripProtocol(replace(pattern, "*", <<"%">>))
    IN
    IF /\ count(sql_pattern, "%") > 1
       /\ count(sql_pattern, "/") = 0
       /\ SubdomainOnlyMatch(sql_pattern) = {}
    THEN Fallback("multiple wildcards in domain")
    ELSE IF \E c \in {":", "?", "#"} : count(sql_pattern, c) > 0
    THEN Fallback("contains port/query/fragment")
    ELSE IF TldOnlyMatch(sql_pattern) # {}
    THEN LET g == Groups(TldOnlyMatch(sql_pattern))
         IN  [InitialResult EXCEPT !.tld = Some(lower(g.tld)),
                                   !.reason = "tld-only pattern"]
    ELSE IF ExactDomainMatch(sql_pattern) # {}
    THEN LET g == Groups(ExactDomainMatch(sql_pattern))
             tld == lower(g.tld)
             full_domain == lower(g.domain) \o DOT \o tld
         IN  [InitialResult EXCEPT
                 !.tld = Some(tld),
                 !.host_names = ExactDomainHostNames(g.has_www, full_domain),
                 !.reason = "exact domain pattern"]
    ELSE IF PrefixWildcardMatch(sql_pattern) # {}
    THEN LET g == Groups(PrefixWildcardMatch(sql_pattern))
             tld == lower(g.tld)
             full_hostname == lower(g.domain_part) \o DOT \o tld
         IN  [InitialResult EXCEPT
                 !.tld = Some(tld),
                 !.host_names = <<full_hostname>>,
                 !.reason = "prefix wildcard pattern (exact hostname match)"]
    ELSE IF SubdomainWildcardMatch(sql_pattern) # {}
    THEN LET g == Groups(SubdomainWildcardMatch(sql_pattern))
             tld == lower(g.tld)
         IN  [InitialResult EXCEPT
                 !.tld = Some(tld),
                 !.registered_domain = Some(lower(g.domain) \o DOT \o tld),
                 !.reason = "subdomain wildcard pattern"]
    ELSE IF DomainWithPathMatch(sql_pattern) # {}
    THEN LET g == Groups(DomainWithPathMatch(sql_pattern))
             tld == lower(g.tld)
             full_domain == lower(g.domain) \o DOT \o tld
         IN  [InitialResult EXCEPT
                 !.tld = Some(tld),
                 !.host_names = PathHostNames(g.has_www, full_domain),
                 !.path = Some(g.path),
                 !.reason = "domain with path pattern"]
    ELSE IF SubdomainWithPathMatch(sql_pattern) # {}
    THEN LET g == Groups(SubdomainWithPathMatch(sql_pattern))
             tld == lower(g.tld)
         IN  [InitialResult EXCEPT
                 !.tld = Some(tld),
                 !.registered_domain = Some(lower(g.domain) \o DOT \o tld),
                 !.path = Some(g.path),
                 !.reason = "subdomain wildcard with path"]
    ELSE Fallback("pattern too complex for optimization")

(***************************************************************************)
(* Specification of one call of _parse_url_pattern.                        *)
(***************************************************************************)
PatternProtocols ==
    { <<>>, <<"h","t","t","p",":","/","/">>, <<"F","T","P",":","/","/">> }

PatternPrefixes == { <<>>, <<"%">>, <<"*">>, <<"%",".">>, <<"*",".">>, <<".">> }

PatternHosts ==
    { <<>>,
      <<"a",".">>,
      <<"w","w","w",".">>,
      <<"A","-","1",".">>,
      <<"w","w","w",".","a",".">>,
      <<"b",".","a",".">>,
      <<"W","w","w",".","w","w","w",".">> }

PatternTlds == { <<"i","o">>, <<"I","O">>, <<"c">>, <<"v","a">> }

PatternSuffixes ==
    { <<>>, <<"/">>, <<"/","b","%">>, <<":","8","0">>, <<"?","q">>, <<"#","f">>,
      <<"\n">>, <<"%">>, <<"/","b","\n","c">> }

PatternAlphabet == {"a", ".", "%", "/", "w"}

PatternInputs ==
    Strings(PatternAlphabet, MaxStringLen + 2)
    \cup { pr \o pre \o h \o t \o suf :
             pr \in PatternProtocols, pre \in PatternPrefixes, h \in PatternHosts,
             t \in PatternTlds, suf \in PatternSuffixes }

InitParse ==
    /\ pc = "call"
    /\ call \in { [fn |-> "_parse_url_pattern", pattern |-> p] : p \in PatternInputs }
    /\ ret = NotCalled

CallParse ==
    /\ pc = "call"
    /\ call.fn = "_parse_url_pattern"
    /\ ret' = Return(_parse_url_pattern(call.pattern))
    /\ pc' = "done"
    /\ UNCHANGED call

NextParse == CallParse

SpecParse == InitParse /\ [][NextParse]_vars

ParseDone == pc = "done" /\ call.fn = "_parse_url_pattern"

(***************************************************************************)
(* C5: for every input pattern _parse_url_pattern returns exactly one      *)
(* outcome: either use_fallback is true and tld, registered_domain and     *)
(* path are unset and host_names is empty, or use_fallback is false and    *)
(* tld is set; no result is both an optimizable shape and a fallback.      *)
(***************************************************************************)
C5_ExactlyOneOutcome ==
    ParseDone =>
        /\ ret.kind = "return"
        /\ LET r == ret.value
           IN  \/ /\ r.use_fallback
                  /\ r.tld = None
                  /\ r.registered_domain = None
                  /\ r.path = None
                  /\ r.host_names = <<>>
               \/ /\ ~r.use_fallback
                  /\ Truthy(r.tld)

\* a pattern with a query string has been classified as a fallback
C5_Witness ==
    /\ ParseDone
    /\ count(call.pattern, "?") > 0
    /\ ret.value.use_fallback
    /\ ret.value.tld = None

(***************************************************************************)
(* C6: for every subdomain-wildcard pattern %.<domain>.<tld> or            *)
(* *.<domain>.<tld>, _parse_url_pattern returns registered_domain          *)
(* <domain>.<tld> and tld <tld>, an empty host_names list and no fallback. *)
(***************************************************************************)
\* p[from..] is <domain>.<tld>
C6_DomainDotTld(p, from) ==
    \E k \in (from + 1)..Len(p) :
        /\ p[k] = "."
        /\ IsLabel(SubSeq(p, from, k - 1))
        /\ IsTld(SubSeq(p, k + 1, Len(p)))

C6_TldOf(p) ==
    LET k == CHOOSE k \in 1..Len(p) : p[k] = "." /\ IsTld(SubSeq(p, k + 1, Len(p)))
    IN  SubSeq(p, k + 1, Len(p))

C6_IsSubdomainWildcard(p) ==
    /\ Len(p) >= 2
    /\ p[1] \in {"%", "*"}
    /\ p[2] = "."
    /\ C6_DomainDotTld(p, 3)

C6_SubdomainWildcardIsRegisteredDomain ==
    (ParseDone /\ C6_IsSubdomainWildcard(call.pattern)) =>
        LET r == ret.value
            p == call.pattern
        IN  /\ ~r.use_fallback
            /\ r.registered_domain = Some(lower(SubSeq(p, 3, Len(p))))
            /\ r.tld = Some(lower(C6_TldOf(p)))
            /\ r.host_names = <<>>

(***************************************************************************)
(* C7: for every exact-domain pattern <domain>.<tld> (no wildcard, no      *)
(* path, optional protocol prefix) _parse_url_pattern returns tld <tld>    *)
(* and the host names <domain>.<tld> and www.<domain>.<tld>; for           *)
(* www.<domain>.<tld> it returns only www.<domain>.<tld>; in both cases    *)
(* without fallback.  Host names and tld are returned in lower case.       *)
(***************************************************************************)
\* the pattern without its protocol prefix
C7_Host(p) ==
    IF \E pr \in PatternProtocols : pr # <<>> /\ At(pr, p, 1)
    THEN LET pr == CHOOSE pr \in PatternProtocols : pr # <<>> /\ At(pr, p, 1)
         IN  SubSeq(p, Len(pr) + 1, Len(p))
    ELSE p

C7_IsBare(q) == C6_DomainDotTld(q, 1)

C7_IsWww(q) == At(WWW_DOT, q, 1) /\ C6_DomainDotTld(q, Len(WWW_DOT) + 1)

C7_ExactDomainHostNames ==
    ParseDone =>
        LET r == ret.value
            q == C7_Host(call.pattern)
        IN  /\ C7_IsBare(q) =>
                /\ ~r.use_fallback
                /\ r.tld = Some(lower(C6_TldOf(q)))
                /\ Len(r.host_names) = 2
                /\ Range(r.host_names) = { lower(q), WWW_DOT \o lower(q) }
            /\ C7_IsWww(q) =>
                /\ ~r.use_fallback
                /\ r.tld = Some(lower(C6_TldOf(q)))
                /\ r.host_names = << lower(q) >>

\* a www. pattern behind a protocol prefix gave the www. host name alone
C7_Witness ==
    /\ ParseDone
    /\ C7_Host(call.pattern) # call.pattern
    /\ C7_IsWww(C7_Host(call.pattern))
    /\ Len(ret.value.host_names) = 1

(***************************************************************************)
(* Python values the query builder handles.                                *)
(***************************************************************************)
\* str(n) for an int
RECURSIVE DigitsOf(_)
DigitsOf(n) ==
    IF n < 10 THEN <<Digits[n + 1]>> ELSE DigitsOf(n \div 10) \o <<Digits[(n % 10) + 1]>>

str(n) == IF n < 0 THEN <<"-">> \o DigitsOf(-n) ELSE DigitsOf(n)

\* sep.join(parts)
RECURSIVE Join(_, _)
Join(parts, sep) ==
    IF parts = <<>> THEN <<>>
    ELSE IF Len(parts) = 1 THEN parts[1]
    ELSE parts[1] \o sep \o Join(Tail(parts), sep)

Min(S) == CHOOSE x \in S : \A y \in S : x <= y

\* F(v), with v computed once: a local variable of the code
With(v, F(_)) == CHOOSE r \in { F(x) : x \in {v} } : TRUE

\* a list, with its members computed once
list(members) == members \o <<>>

\* A set of str is the sequence of its elements in insertion order, without
\* duplicates.  The order in which a set is iterated depends on the string
\* hashes of the process: an `order` is a permutation of the positions.

\* a set that keeps an element it already holds
set_add_duplicate(s, x) == Append(s, x)

\* set.add(x)
set_add(s, x) == IF x \in Range(s) THEN s ELSE Append(s, x)

\* set.update(items)
RECURSIVE set_update(_, _)
set_update(s, items) ==
    IF items = <<>> THEN s ELSE set_update(set_add(s, Head(items)), Tail(items))

\* for x in s: the elements of the set, in the order the process gives them
Iterate(s, order) == [i \in 1..Len(s) |-> s[order[i]]]

\* the orders in which a set of n elements can be iterated
IterationOrdersOf(n) == Permutations(1..n)

(***************************************************************************)
(* CrawlQueryBuilder._validate_crawl_id, _validate_integer                 *)
(***************************************************************************)
CC_MAIN == <<"C","C","-","M","A","I","N","-">>

DEFAULT_CRAWL == CC_MAIN \o <<"2","0","2","4","-","3","3">>

\* re.match(r"^CC-MAIN-\d{4}-\d{2}$", crawl_id)
CrawlIdMatch(crawl_id) ==
    LET t == Chomp(crawl_id)
        n == Len(CC_MAIN)
    IN  /\ Len(t) = n + 7
        /\ At(CC_MAIN, t, 1)
        /\ AllChars(SubSeq(t, n + 1, n + 4), IsDigit)
        /\ t[n + 5] = "-"
        /\ AllChars(SubSeq(t, n + 6, n + 7), IsDigit)

_validate_crawl_id(crawl_id) ==
    IF ~CrawlIdMatch(crawl_id)
    THEN Raise("ValueError", "Invalid crawl ID format", crawl_id)
    ELSE Return(crawl_id)

\* [\d%_-]
CrawlPatternChar(c) == IsDigit(c) \/ c \in {"%", "_", "-"}

\* re.match(r'^CC-MAIN-[\d%_-]+$', sql_pattern)
CrawlPatternMatch(sql_pattern) ==
    LET t == Chomp(sql_pattern)
    IN  /\ Len(t) > Len(CC_MAIN)
        /\ At(CC_MAIN, t, 1)
        /\ AllChars(SubSeq(t, Len(CC_MAIN) + 1, Len(t)), CrawlPatternChar)

_validate_integer(value, min_val, max_val) ==
    IF ~(min_val <= value /\ value <= max_val)
    THEN Raise("ValueError", "Integer not in range", str(value))
    ELSE Return(value)

(***************************************************************************)
(* _build_exact_match_condition, _build_exact_match_condition_int,         *)
(* _build_like_conditions                                                  *)
(***************************************************************************)
QUOTE == "'"

\* '{value}'
Quoted(value) == <<QUOTE>> \o value \o <<QUOTE>>

_build_exact_match_condition(column, values) ==
    IF Len(values) = 1
    THEN <<column, " = ">> \o Quoted(values[1])
    ELSE <<column, " IN (">> \o Quoted(Join(values, <<QUOTE, ",", QUOTE>>)) \o <<")">>

_build_exact_match_condition_int(column, values) ==
    IF Len(values) = 1
    THEN <<column, " = ">> \o str(values[1])
    ELSE <<column, " IN (">>
         \o Join([i \in 1..Len(values) |-> str(values[i])], <<",">>) \o <<")">>

\* the conditions written with = in place of LIKE
_build_like_conditions_equality(column, values) ==
    LET conditions ==
            [i \in 1..Len(values) |-> <<column, " = ">> \o Quoted(values[i])]
    IN  IF Len(conditions) = 1
        THEN conditions[1]
        ELSE <<"(">> \o Join(conditions, <<" OR ">>) \o <<")">>

_build_like_conditions(column, values) ==
    LET conditions ==
            [i \in 1..Len(values) |-> <<column, " LIKE ">> \o Quoted(values[i])]
    IN  IF Len(conditions) = 1
        THEN conditions[1]
        ELSE <<"(">> \o Join(conditions, <<" OR ">>) \o <<")">>

(***************************************************************************)
(* Statements in sequence: the first one that raises ends the call.        *)
(***************************************************************************)
\* the results of a loop or comprehension whose body can raise: the first
\* exception raised, or the list of the values
Each(results) ==
    With(list(results), LAMBDA rs :
        With({ i \in 1..Len(rs) : rs[i].kind = "raise" }, LAMBDA failed :
            IF failed # {}
            THEN rs[Min(failed)]
            ELSE Return(list([i \in 1..Len(rs) |-> rs[i].value]))))

\* a comprehension that uses the values as they are
EscapeEach_unescaped(values) == Return(values)

\* [self._escape_sql_string(v) for v in values]
EscapeEach(values) ==
    Each([i \in 1..Len(values) |-> _escape_sql_string(values[i])])

(***************************************************************************)
(* CrawlQueryBuilder._optimize_url_patterns                                *)
(***************************************************************************)
EmptyOptimized ==
    [tlds |-> <<>>, registered_domains |-> <<>>, host_names |-> <<>>,
     paths |-> <<>>, fallback_patterns |-> <<>>,
     optimized_count |-> 0, fallback_count |-> 0]

\* the body of `for pattern in self.filter_config.url_patterns`, from the
\* patterns still to do and the result so far
RECURSIVE OptimizeLoop(_, _)
OptimizeLoop(patterns, result) ==
    IF patterns = <<>> THEN Return(result)
    ELSE
    With(_parse_url_pattern(Head(patterns)), LAMBDA parsed :
        IF parsed.use_fallback
        THEN With(_escape_sql_string(replace(Head(patterns), "*", <<"%">>)),
                  LAMBDA safe_pattern :
                IF safe_pattern.kind = "raise"
                THEN safe_pattern
                ELSE OptimizeLoop(Tail(patterns),
                        [result EXCEPT
                            !.fallback_patterns = Append(@, safe_pattern.value),
                            !.fallback_count = @ + 1]))
        ELSE OptimizeLoop(Tail(patterns),
                [result EXCEPT
                    !.tlds = IF Truthy(parsed.tld) THEN set_add(@, parsed.tld[1]) ELSE @,
                    !.registered_domains =
                        IF Truthy(parsed.registered_domain)
                        THEN set_add(@, parsed.registered_domain[1]) ELSE @,
                    !.host_names =
                        IF parsed.host_names # <<>>
                        THEN set_update(@, parsed.host_names) ELSE @,
                    !.paths = IF Truthy(parsed.path) THEN set_add(@, parsed.path[1]) ELSE @,
                    !.optimized_count = @ + 1]))

_optimize_url_patterns(filter_config) ==
    OptimizeLoop(filter_config.url_patterns, EmptyOptimized)

(***************************************************************************)
(* CrawlQueryBuilder.to_sql                                                *)
(***************************************************************************)
SELECT_COUNT == "SELECT COUNT(*)"

SELECT_COLUMNS ==
    "SELECT\n                url,\n                url_host_name,\n                fetch_time,\n                fetch_status,\n                content_mime_type,\n                content_charset,\n                content_languages,\n                warc_filename,\n                warc_record_offset,\n                warc_record_length"

\* the white space of the query template
INDENT_8 == "\n        "

INDENT_12 == "\n            "

\* str.strip() of a text whose white space at both ends is in pieces of its own
RECURSIVE strip_pieces(_)
strip_pieces(text) ==
    IF text # <<>> /\ Head(text) \in {INDENT_8, INDENT_12}
    THEN strip_pieces(Tail(text))
    ELSE IF text # <<>> /\ text[Len(text)] \in {INDENT_8, INDENT_12}
    THEN strip_pieces(SubSeq(text, 1, Len(text) - 1))
    ELSE text

IsCrawlPattern(cid) == count(cid, "*") > 0 \/ count(cid, "?") > 0

\* the body of `for cid in self.filter_config.crawl_ids`: the validated
\* pattern or identifier
CrawlIdStep(cid) ==
    IF IsCrawlPattern(cid)
    THEN LET cid_upper == upper(strip(cid))
             sql_pattern == replace(replace(cid_upper, "*", <<"%">>), "?", <<"_">>)
         IN  IF ~CrawlPatternMatch(sql_pattern)
             THEN Raise("ValueError", "Invalid crawl ID pattern", cid)
             ELSE _escape_sql_string(sql_pattern)
    ELSE _validate_crawl_id(upper(cid))

\* the positions of a list of booleans that hold True, in order
RECURSIVE IndicesWhere(_)
IndicesWhere(flags) ==
    IF flags = <<>> THEN <<>>
    ELSE IndicesWhere(SubSeq(flags, 1, Len(flags) - 1))
         \o (IF flags[Len(flags)] THEN <<Len(flags)>> ELSE <<>>)

\* crawl_conditions, from the validated identifiers of crawl_ids
CrawlConditions(crawl_ids, validated) ==
    LET exact_at ==
            IndicesWhere([i \in 1..Len(crawl_ids) |-> ~IsCrawlPattern(crawl_ids[i])])
        pattern_at ==
            IndicesWhere([i \in 1..Len(crawl_ids) |-> IsCrawlPattern(crawl_ids[i])])
    IN  (IF exact_at # <<>>
         THEN <<_build_exact_match_condition("crawl",
                    [i \in 1..Len(exact_at) |-> validated[exact_at[i]]])>>
         ELSE <<>>)
        \o (IF pattern_at # <<>>
            THEN <<_build_like_conditions("crawl",
                    [i \in 1..Len(pattern_at) |-> validated[pattern_at[i]]])>>
            ELSE <<>>)

\* a crawl_condition that matches every crawl when the filter names none
CrawlCondition_every_crawl(crawl_ids) ==
    IF crawl_ids # <<>>
    THEN With(Each([i \in 1..Len(crawl_ids) |-> CrawlIdStep(crawl_ids[i])]), LAMBDA steps :
            IF steps.kind = "raise" THEN steps
            ELSE With(CrawlConditions(crawl_ids, steps.value), LAMBDA crawl_conditions :
                    IF Len(crawl_conditions) = 1
                    THEN Return(crawl_conditions[1])
                    ELSE Return(<<"(">> \o Join(crawl_conditions, <<" OR ">>) \o <<")">>)))
    ELSE Return(_build_like_conditions("crawl", <<CC_MAIN \o <<"%">>>>))

\* crawl_condition, from the crawl_ids of the filter
CrawlCondition(crawl_ids) ==
    IF crawl_ids # <<>>
    THEN With(Each([i \in 1..Len(crawl_ids) |-> CrawlIdStep(crawl_ids[i])]), LAMBDA steps :
            IF steps.kind = "raise" THEN steps
            ELSE With(CrawlConditions(crawl_ids, steps.value), LAMBDA crawl_conditions :
                    IF Len(crawl_conditions) = 1
                    THEN Return(crawl_conditions[1])
                    ELSE Return(<<"(">> \o Join(crawl_conditions, <<" OR ">>) \o <<")">>)))
    ELSE With(_validate_crawl_id(DEFAULT_CRAWL), LAMBDA validated :
            IF validated.kind = "raise" THEN validated
            ELSE Return(_build_exact_match_condition("crawl", <<validated.value>>)))

\* the FilterConfig the builder reads; a list that is None or empty is <<>>
EmptyFilter ==
    [url_patterns |-> <<>>, url_host_names |-> <<>>, url_host_tlds |-> <<>>,
     url_host_registered_domains |-> <<>>, url_paths |-> <<>>,
     status_codes |-> <<>>, mime_types |-> <<>>, languages |-> <<>>,
     charsets |-> <<>>, date_from |-> None, date_to |-> None,
     custom_filters |-> <<>>, crawl_ids |-> <<>>]

DATABASE == "ccindex"

TABLE == "ccindex"

STATUS_MIN == 100

STATUS_MAX == 599

LIMIT_MIN == 1

LIMIT_MAX == 100000

\* a limit that applies to counting queries too
LimitApplies_when_counting(limit, count_only) == limit # None /\ limit[1] # 0

\* `if self.limit and not count_only`
LimitApplies(limit, count_only) == limit # None /\ limit[1] # 0 /\ ~count_only

\* optimized[column].copy(), updated with the explicit values when there are any
Combined(optimized_set, explicit) ==
    IF explicit # <<>> THEN set_update(optimized_set, explicit) ELSE optimized_set

\* the four sets to_sql iterates, given the result of _optimize_url_patterns
CombinedSets(filter_config, optimized) ==
    [tlds |-> Combined(optimized.tlds, filter_config.url_host_tlds),
     registered_domains |->
        Combined(optimized.registered_domains, filter_config.url_host_registered_domains),
     host_names |-> Combined(optimized.host_names, filter_config.url_host_names),
     paths |-> Combined(optimized.paths, filter_config.url_paths)]

\* the iteration orders a process can give the four sets of one call
IterationOrders(filter_config) ==
    With(_optimize_url_patterns(filter_config), LAMBDA optimized :
        With(CombinedSets(filter_config,
                IF optimized.kind = "raise" THEN EmptyOptimized ELSE optimized.value),
             LAMBDA sets :
                [tlds : IterationOrdersOf(Len(sets.tlds)),
                 registered_domains : IterationOrdersOf(Len(sets.registered_domains)),
                 host_names : IterationOrdersOf(Len(sets.host_names)),
                 paths : IterationOrdersOf(Len(sets.paths))]))

\* the statements of to_sql that can raise, after the URL patterns are
\* optimized: the value or the exception of each
Statements(filter_config, limit, count_only, order, combined) ==
    [safe_tlds |-> EscapeEach(Iterate(combined.tlds, order.tlds)),
     safe_domains |->
        EscapeEach(Iterate(combined.registered_domains, order.registered_domains)),
     safe_hosts |-> EscapeEach(Iterate(combined.host_names, order.host_names)),
     safe_paths |-> EscapeEach(Iterate(combined.paths, order.paths)),
     validated_codes |->
        Each([i \in 1..Len(filter_config.status_codes) |->
                _validate_integer(filter_config.status_codes[i], STATUS_MIN, STATUS_MAX)]),
     escaped_mimes |-> EscapeEach(filter_config.mime_types),
     escaped_langs |-> EscapeEach(filter_config.languages),
     escaped_charsets |-> EscapeEach(filter_config.charsets),
     safe_date_from |->
        IF Truthy(filter_config.date_from)
        THEN _escape_sql_string(filter_config.date_from[1]) ELSE Return(<<>>),
     safe_date_to |->
        IF Truthy(filter_config.date_to)
        THEN _escape_sql_string(filter_config.date_to[1]) ELSE Return(<<>>),
     safe_customs |->
        Each([i \in 1..Len(filter_config.custom_filters) |->
                _validate_custom_filter(filter_config.custom_filters[i])]),
     safe_limit |->
        IF LimitApplies(limit, count_only)
        THEN _validate_integer(limit[1], LIMIT_MIN, LIMIT_MAX) ELSE Return(0)]

\* the order in which to_sql runs them
StatementOrder ==
    <<"safe_tlds", "safe_domains", "safe_hosts", "safe_paths", "validated_codes",
      "escaped_mimes", "escaped_langs", "escaped_charsets", "safe_date_from",
      "safe_date_to", "safe_customs", "safe_limit">>

\* where_conditions, when no statement raised; s holds the values
WhereConditionsOf(filter_config, crawl_condition, combined, fallback_patterns, s) ==
    <<crawl_condition, <<"subset", " = ">> \o Quoted(<<"w", "a", "r", "c">>)>>
    \o (IF combined.tlds # <<>>
        THEN <<_build_exact_match_condition("url_host_tld", s.safe_tlds.value)>>
        ELSE <<>>)
    \o (IF combined.registered_domains # <<>>
        THEN <<_build_exact_match_condition("url_host_registered_domain",
                                            s.safe_domains.value)>>
        ELSE <<>>)
    \o (IF combined.host_names # <<>>
        THEN <<_build_exact_match_condition("url_host_name", s.safe_hosts.value)>>
        ELSE <<>>)
    \o (IF combined.paths # <<>>
        THEN <<_build_like_conditions("url_path", s.safe_paths.value)>>
        ELSE <<>>)
    \o (IF fallback_patterns # <<>>
        THEN <<_build_like_conditions("url", fallback_patterns)>>
        ELSE <<>>)
    \o (IF filter_config.status_codes # <<>>
        THEN <<_build_exact_match_condition_int("fetch_status", s.validated_codes.value)>>
        ELSE <<>>)
    \o (IF filter_config.mime_types # <<>>
        THEN <<_build_like_conditions("content_mime_type",
                [i \in 1..Len(s.escaped_mimes.value) |->
                    s.escaped_mimes.value[i] \o <<"%">>])>>
        ELSE <<>>)
    \o (IF filter_config.languages # <<>>
        THEN <<_build_like_conditions("content_languages",
                [i \in 1..Len(s.escaped_langs.value) |->
                    <<"%">> \o s.escaped_langs.value[i] \o <<"%">>])>>
        ELSE <<>>)
    \o (IF filter_config.charsets # <<>>
        THEN <<_build_like_conditions("content_charset",
                [i \in 1..Len(s.escaped_charsets.value) |->
                    s.escaped_charsets.value[i] \o <<"%">>])>>
        ELSE <<>>)
    \o (IF Truthy(filter_config.date_from)
        THEN <<<<"fetch_time", " >= ">> \o Quoted(s.safe_date_from.value)>>
        ELSE <<>>)
    \o (IF Truthy(filter_config.date_to)
        THEN <<<<"fetch_time", " <= ">> \o Quoted(s.safe_date_to.value)>>
        ELSE <<>>)
    \o [i \in 1..Len(s.safe_customs.value) |->
            <<"(">> \o s.safe_customs.value[i] \o <<")">>]

\* the query template, filled in, with its LIMIT
QueryText(select_clause, where_conditions, limit_applies, safe_limit) ==
    <<INDENT_8>> \o select_clause
    \o <<"\n        FROM ", DATABASE, ".", TABLE, "\n        WHERE ">>
    \o Join(where_conditions, <<" AND ">>)
    \o <<INDENT_8>>
    \o (IF limit_applies THEN <<" LIMIT ">> \o str(safe_limit) ELSE <<>>)

\* to_sql of a builder made from filter_config and limit, in a process that
\* iterates the sets in the orders of `order`
to_sql(filter_config, limit, count_only, order) ==
    With(CrawlCondition(filter_config.crawl_ids), LAMBDA crawl_condition :
    IF crawl_condition.kind = "raise" THEN crawl_condition
    ELSE
    With(_optimize_url_patterns(filter_config), LAMBDA optimized :
    IF optimized.kind = "raise" THEN optimized
    ELSE
    With(CombinedSets(filter_config, optimized.value), LAMBDA combined :
    With(Statements(filter_config, limit, count_only, order, combined), LAMBDA s :
    With({ i \in 1..Len(StatementOrder) : s[StatementOrder[i]].kind = "raise" },
         LAMBDA raised :
    IF raised # {} THEN s[StatementOrder[Min(raised)]]
    ELSE Return(strip_pieces(QueryText(
            IF count_only THEN <<SELECT_COUNT>>
            ELSE <<INDENT_12, SELECT_COLUMNS, INDENT_12>>,
            WhereConditionsOf(filter_config, crawl_condition.value, combined,
                              optimized.value.fallback_patterns, s),
            LimitApplies(limit, count_only),
            s.safe_limit.value))))))))

(***************************************************************************)
(* Calls of to_sql: the filters, limits and count_only flags of the        *)
(* bounded model.                                                          *)
(***************************************************************************)
MaxPatterns == 2

\* the lists of at most n members of S
Lists(S, n) == UNION { [1..k -> S] : k \in 0..n }

\* the lists of one or two members of S
OneOrTwo(S) == { <<x>> : x \in S } \cup { <<x, y>> : x \in S, y \in S }

A_IO == <<"a", ".", "i", "o">>

UrlPatternSamples ==
    { A_IO,                                       \* exact domain
      <<"A", ".", "i", "o">>,                     \* the same domain, other spelling
      <<"%", ".", "v", "a">>,                     \* TLD only
      <<"*", ".", "a", ".", "i", "o">>,           \* wildcard before a domain
      A_IO \o <<"/", "b", "*">>,                  \* domain with path
      A_IO \o <<"?", "q">>,                       \* query string
      A_IO \o <<":", "8", "0">>,                  \* port
      <<"%", "a", "%">>,                          \* wildcards on both sides
      <<"a", "'", ".", "i", "o">> }               \* a quote

StringSamples ==
    { A_IO, <<"v", "a">>, <<"i", "t", "'", "s">>, <<"a", ";", "b">> }

StatusCodeSamples == { 200, 404, 99, 600 }

DateSamples ==
    { <<"2", "0", "2", "4">>, <<"2", "0", "2", "4", "-", "1">>, <<"i", "t", "'", "s">>,
      <<"a", ";", "b">>, <<>> }

CustomFilterSamples ==
    { <<"a", "=", "1">>, <<"a", "=", "'", "1">>, <<"a", ";", "b">> }

CrawlIdSamples ==
    { DEFAULT_CRAWL,
      DEFAULT_CRAWL \o <<"\n">>,
      lower(CC_MAIN) \o <<"2", "0", "2", "4", "-", "1", "0">>,
      CC_MAIN \o <<"2", "0", "2", "4", "-", "*">>,
      CC_MAIN \o <<"2", "0", "2", "4", "-", "3", "?">>,
      CC_MAIN \o <<"*", "-", "-">>,
      <<"b", "a", "d">> }

LimitSamples == { None, Some(-1), Some(0), Some(1), Some(5), Some(100000), Some(100001) }

\* filters with url_patterns only
PatternFilters ==
    { [EmptyFilter EXCEPT !.url_patterns = ps] : ps \in Lists(UrlPatternSamples, MaxPatterns) }

\* the url_patterns that go with explicit values of the indexed columns
PatternContexts ==
    { <<>>, << <<"%", ".", "v", "a">> >>, << A_IO \o <<"/", "b", "*">> >> }

\* filters with explicit values for one indexed column
ColumnFilters ==
    UNION { { [EmptyFilter EXCEPT !.url_patterns = ps, !.url_host_tlds = vs],
              [EmptyFilter EXCEPT !.url_patterns = ps, !.url_host_registered_domains = vs],
              [EmptyFilter EXCEPT !.url_patterns = ps, !.url_host_names = vs],
              [EmptyFilter EXCEPT !.url_patterns = ps, !.url_paths = vs] } :
            ps \in PatternContexts, vs \in OneOrTwo(StringSamples) }

\* filters with one of the other fields
FieldFilters ==
    { [EmptyFilter EXCEPT !.status_codes = vs] : vs \in OneOrTwo(StatusCodeSamples) }
    \cup UNION { { [EmptyFilter EXCEPT !.mime_types = vs],
                   [EmptyFilter EXCEPT !.languages = vs],
                   [EmptyFilter EXCEPT !.charsets = vs] } : vs \in OneOrTwo(StringSamples) }
    \cup UNION { { [EmptyFilter EXCEPT !.date_from = Some(d)],
                   [EmptyFilter EXCEPT !.date_to = Some(d)] } : d \in DateSamples }
    \cup { [EmptyFilter EXCEPT !.custom_filters = vs] : vs \in OneOrTwo(CustomFilterSamples) }
    \cup { [EmptyFilter EXCEPT !.crawl_ids = vs] : vs \in OneOrTwo(CrawlIdSamples) }

\* a filter with a valid value in every field
FullFilter ==
    [url_patterns |-> << <<"%", ".", "v", "a">> >>,
     url_host_names |-> <<A_IO>>,
     url_host_tlds |-> << <<"i", "o">> >>,
     url_host_registered_domains |-> <<A_IO>>,
     url_paths |-> << <<"/", "b", "%">> >>,
     status_codes |-> <<200>>,
     mime_types |-> << <<"t", "/", "h">> >>,
     languages |-> << <<"e", "n", "g">> >>,
     charsets |-> << <<"U", "T", "F">> >>,
     date_from |-> Some(<<"2", "0", "2", "4">>),
     date_to |-> Some(<<"2", "0", "2", "5">>),
     custom_filters |-> << <<"a", "=", "1">> >>,
     crawl_ids |-> <<DEFAULT_CRAWL>>]

BAD_STRING == <<"a", ";", "b">>

\* the full filter, and the full filter with one or two fields made invalid
FullFilters ==
    LET Spoiled(f) ==
            { f,
              [f EXCEPT !.url_patterns = <<BAD_STRING>>],
              [f EXCEPT !.url_host_names = <<BAD_STRING>>],
              [f EXCEPT !.url_host_tlds = <<BAD_STRING>>],
              [f EXCEPT !.url_host_registered_domains = <<BAD_STRING>>],
              [f EXCEPT !.url_paths = <<BAD_STRING>>],
              [f EXCEPT !.status_codes = <<600>>],
              [f EXCEPT !.mime_types = <<BAD_STRING>>],
              [f EXCEPT !.languages = <<BAD_STRING>>],
              [f EXCEPT !.charsets = <<BAD_STRING>>],
              [f EXCEPT !.date_from = Some(BAD_STRING)],
              [f EXCEPT !.date_to = Some(BAD_STRING)],
              [f EXCEPT !.custom_filters = <<BAD_STRING>>],
              [f EXCEPT !.crawl_ids = <<BAD_STRING>>] }
    IN  UNION { Spoiled(f) : f \in Spoiled(FullFilter) }

ToSqlCalls ==
    { [fn |-> "to_sql", filter_config |-> f, limit |-> None, count_only |-> FALSE] :
        f \in PatternFilters \cup ColumnFilters \cup FieldFilters }
    \cup { [fn |-> "to_sql", filter_config |-> f, limit |-> l, count_only |-> c] :
            f \in { EmptyFilter, [EmptyFilter EXCEPT !.url_patterns = <<A_IO>>] },
            l \in LimitSamples, c \in BOOLEAN }
    \cup { [fn |-> "to_sql", filter_config |-> f, limit |-> Some(5), count_only |-> c] :
            f \in FullFilters, c \in BOOLEAN }

InitToSql ==
    /\ pc = "call"
    /\ call \in ToSqlCalls
    /\ ret = NotCalled

\* CrawlQueryBuilder(call.filter_config, call.limit).to_sql(call.count_only)
CallToSql ==
    /\ pc = "call"
    /\ call.fn = "to_sql"
    /\ \E order \in IterationOrders(call.filter_config) :
            ret' = to_sql(call.filter_config, call.limit, call.count_only, order)
    /\ pc' = "done"
    /\ UNCHANGED call

NextToSql == CallToSql

SpecToSql == InitToSql /\ [][NextToSql]_vars

ToSqlDone == pc = "done" /\ call.fn = "to_sql"

(***************************************************************************)
(* Reading a query back: its WHERE conditions and the string literals in   *)
(* them, as an SQL lexer sees them (a quote opens a literal, two quotes    *)
(* inside a literal are one quote character, one quote closes it).         *)
(***************************************************************************)
ColumnNames ==
    { "crawl", "subset", "url_host_tld", "url_host_registered_domain", "url_host_name",
      "url_path", "url", "fetch_status", "content_mime_type", "content_languages",
      "content_charset", "fetch_time" }

IndexedColumns ==
    { "url_host_tld", "url_host_registered_domain", "url_host_name", "url_path" }

Operators == { " = ", " IN (", " LIKE ", " >= ", " <= " }

\* the parts of a text between the pieces equal to sep
RECURSIVE SplitOn(_, _)
SplitOn(text, sep) ==
    LET at == { i \in 1..Len(text) : text[i] = sep }
    IN  IF at = {} THEN <<text>>
        ELSE <<SubSeq(text, 1, Min(at) - 1)>>
             \o SplitOn(SubSeq(text, Min(at) + 1, Len(text)), sep)

\* the text between WHERE and the end of the query or its LIMIT
WhereClause(query) ==
    LET from == CHOOSE i \in 1..Len(query) : query[i] = "\n        WHERE "
        ends == { i \in from..Len(query) : query[i] = INDENT_8 }
    IN  SubSeq(query, from + 1, IF ends = {} THEN Len(query) ELSE Min(ends) - 1)

WhereConditions(query) == SplitOn(WhereClause(query), " AND ")

\* the literals of a text from piece i on, each with the column and operator
\* before it; a literal that the text does not close has closed = FALSE
RECURSIVE LiteralsFrom(_, _, _, _, _, _)
LiteralsFrom(text, i, column, operator, inside, literal) ==
    IF i > Len(text)
    THEN (IF inside
          THEN <<[column |-> column, operator |-> operator, value |-> literal,
                  closed |-> FALSE]>>
          ELSE <<>>)
    ELSE IF inside
    THEN (IF text[i] = QUOTE /\ i < Len(text) /\ text[i + 1] = QUOTE
          THEN LiteralsFrom(text, i + 2, column, operator, TRUE, Append(literal, QUOTE))
          ELSE IF text[i] = QUOTE
          THEN <<[column |-> column, operator |-> operator, value |-> literal,
                  closed |-> TRUE]>>
               \o LiteralsFrom(text, i + 1, column, operator, FALSE, <<>>)
          ELSE LiteralsFrom(text, i + 1, column, operator, TRUE, Append(literal, text[i])))
    ELSE (IF text[i] = QUOTE
          THEN LiteralsFrom(text, i + 1, column, operator, TRUE, <<>>)
          ELSE IF text[i] \in ColumnNames
          THEN LiteralsFrom(text, i + 1, text[i], operator, FALSE, <<>>)
          ELSE IF text[i] \in Operators
          THEN LiteralsFrom(text, i + 1, column, text[i], FALSE, <<>>)
          ELSE LiteralsFrom(text, i + 1, column, operator, FALSE, <<>>))

Literals(text) == LiteralsFrom(text, 1, "", "", FALSE, <<>>)

\* a condition written by the builder names a column; a custom condition is
\* the caller's text in parentheses
IsBuilderCondition(condition) == \E i \in 1..Len(condition) : condition[i] \in ColumnNames

\* the literals of the builder's conditions of a query, in order
QueryLiterals(query) ==
    LET conditions == WhereConditions(query)
        RECURSIVE From(_)
        From(i) ==
            IF i > Len(conditions) THEN <<>>
            ELSE (IF IsBuilderCondition(conditions[i]) THEN Literals(conditions[i]) ELSE <<>>)
                 \o From(i + 1)
    IN  From(1)

\* the values of the literals of a column, in order
ColumnLiterals(query, column) ==
    LET all == QueryLiterals(query)
        at == IndicesWhere([i \in 1..Len(all) |-> all[i].column = column])
    IN  [i \in 1..Len(at) |-> all[at[i]].value]

\* the builder's conditions on a column
ColumnConditions(query, column) ==
    LET conditions == WhereConditions(query)
    IN  { i \in 1..Len(conditions) :
            \E j \in 1..Len(conditions[i]) : conditions[i][j] = column }

(***************************************************************************)
(* The values a filter asks for, column by column.                         *)
(***************************************************************************)
\* the url_patterns the optimizer resolves to indexed columns, parsed
Resolved(filter_config) ==
    { _parse_url_pattern(filter_config.url_patterns[i]) :
        i \in { j \in 1..Len(filter_config.url_patterns) :
                    ~_parse_url_pattern(filter_config.url_patterns[j]).use_fallback } }

\* the url_patterns that fall back to the url column, in order
FallbackPatterns(filter_config) ==
    LET ps == filter_config.url_patterns
        at == IndicesWhere([i \in 1..Len(ps) |-> _parse_url_pattern(ps[i]).use_fallback])
    IN  [i \in 1..Len(at) |-> replace(ps[at[i]], "*", <<"%">>)]

\* a crawl identifier as the condition matches it
NormalizedCrawlId(cid) ==
    IF IsCrawlPattern(cid)
    THEN replace(replace(upper(strip(cid)), "*", <<"%">>), "?", <<"_">>)
    ELSE upper(cid)

RequestedValues(filter_config, column) ==
    CASE column = "url_host_tld" ->
            Range(filter_config.url_host_tlds)
            \cup { r.tld[1] : r \in { x \in Resolved(filter_config) : Truthy(x.tld) } }
      [] column = "url_host_registered_domain" ->
            Range(filter_config.url_host_registered_domains)
            \cup { r.registered_domain[1] :
                    r \in { x \in Resolved(filter_config) : Truthy(x.registered_domain) } }
      [] column = "url_host_name" ->
            Range(filter_config.url_host_names)
            \cup UNION { Range(r.host_names) : r \in Resolved(filter_config) }
      [] column = "url_path" ->
            Range(filter_config.url_paths)
            \cup { r.path[1] : r \in { x \in Resolved(filter_config) : Truthy(x.path) } }
      [] column = "url" -> Range(FallbackPatterns(filter_config))
      [] column = "content_mime_type" ->
            { v \o <<"%">> : v \in Range(filter_config.mime_types) }
      [] column = "content_languages" ->
            { <<"%">> \o v \o <<"%">> : v \in Range(filter_config.languages) }
      [] column = "content_charset" ->
            { v \o <<"%">> : v \in Range(filter_config.charsets) }
      [] column = "fetch_time" ->
            (IF Truthy(filter_config.date_from) THEN {filter_config.date_from[1]} ELSE {})
            \cup (IF Truthy(filter_config.date_to) THEN {filter_config.date_to[1]} ELSE {})
      [] column = "crawl" ->
            IF filter_config.crawl_ids = <<>> THEN {DEFAULT_CRAWL}
            ELSE { NormalizedCrawlId(cid) : cid \in Range(filter_config.crawl_ids) }
      [] column = "subset" -> { <<"w", "a", "r", "c">> }
      [] OTHER -> {}

\* the strings of a filter that to_sql hands to _escape_sql_string
EscapedStrings(filter_config) ==
    UNION { RequestedValues(filter_config, column) :
                column \in IndexedColumns \cup {"url", "fetch_time"} }
    \cup Range(filter_config.mime_types)
    \cup Range(filter_config.languages)
    \cup Range(filter_config.charsets)

\* every string of the filter is accepted by the validator of its field
AllAccepted(filter_config) ==
    /\ \A cid \in Range(filter_config.crawl_ids) :
            IF IsCrawlPattern(cid)
            THEN /\ CrawlPatternMatch(NormalizedCrawlId(cid))
                 /\ _escape_sql_string(NormalizedCrawlId(cid)).kind = "return"
            ELSE _validate_crawl_id(upper(cid)).kind = "return"
    /\ \A v \in EscapedStrings(filter_config) : _escape_sql_string(v).kind = "return"
    /\ \A c \in Range(filter_config.custom_filters) :
            _validate_custom_filter(c).kind = "return"

(***************************************************************************)
(* C1: in every query that to_sql returns, every string taken from the     *)
(* filter was accepted by the validator of its field, and the literals of  *)
(* the query, read back with doubled quotes as one quote, are exactly the  *)
(* values the filter asks for: no value ends its literal early.  When a    *)
(* string of the filter fails its validator, to_sql raises ValueError and  *)
(* returns no query.                                                       *)
(***************************************************************************)
C1_LiteralsAreTheValues(filter_config, query) ==
    LET literals == QueryLiterals(query)
    IN  /\ \A i \in 1..Len(literals) : literals[i].closed
        /\ \A column \in ColumnNames :
                { literals[i].value : i \in { j \in 1..Len(literals) :
                                                literals[j].column = column } }
                    = RequestedValues(filter_config, column)

C1_EveryStringValidated ==
    ToSqlDone =>
        /\ ret.kind \in {"return", "raise"}
        /\ ret.kind = "return" =>
                /\ AllAccepted(call.filter_config)
                /\ C1_LiteralsAreTheValues(call.filter_config, ret.value)
        /\ ~AllAccepted(call.filter_config) =>
                ret.kind = "raise" /\ ret.exc = "ValueError"

\* a query whose host-name value holds a single quote
C1_Witness ==
    /\ ToSqlDone
    /\ ret.kind = "return"
    /\ \E v \in Range(call.filter_config.url_host_names) : QUOTE \in Range(v)
    /\ \E i \in 1..Len(ret.value) - 1 : ret.value[i] = QUOTE /\ ret.value[i + 1] = QUOTE

(***************************************************************************)
(* The index rows a query selects.                                         *)
(***************************************************************************)
\* value LIKE pattern: % is any run of characters, _ is any one character
RECURSIVE LikeMatch(_, _)
LikeMatch(pattern, value) ==
    IF pattern = <<>> THEN value = <<>>
    ELSE IF Head(pattern) = "%"
    THEN \E k \in 0..Len(value) :
            LikeMatch(Tail(pattern), SubSeq(value, k + 1, Len(value)))
    ELSE /\ value # <<>>
         /\ Head(pattern) = "_" \/ Head(pattern) = Head(value)
         /\ LikeMatch(Tail(pattern), Tail(value))

\* a row of the index satisfies one literal of a condition on its column
LiteralHolds(literal, row) ==
    IF literal.operator = " LIKE "
    THEN LikeMatch(literal.value, row[literal.column])
    ELSE literal.operator \in {" = ", " IN ("} /\ row[literal.column] = literal.value

\* the query selects the row: every condition has a literal that holds
Selects(query, row) ==
    \A i \in 1..Len(WhereConditions(query)) :
        LET literals == Literals(WhereConditions(query)[i])
        IN  \E j \in 1..Len(literals) : LiteralHolds(literals[j], row)

HTTP == <<"h", "t", "t", "p", ":", "/", "/">>

\* the row of the index for a capture of http://host/path in the default crawl
IndexRow(host, tld, registered_domain, path) ==
    [crawl |-> DEFAULT_CRAWL, subset |-> <<"w", "a", "r", "c">>,
     url |-> HTTP \o host \o path,
     url_host_name |-> host, url_host_tld |-> tld,
     url_host_registered_domain |-> registered_domain, url_path |-> path]

IndexRows ==
    { IndexRow(<<"x", ".", "v", "a">>, <<"v", "a">>, <<"x", ".", "v", "a">>, <<"/">>),
      IndexRow(A_IO, <<"i", "o">>, A_IO, <<"/">>),
      IndexRow(<<"w", "w", "w", ".">> \o A_IO, <<"i", "o">>, A_IO, <<"/", "b", "1">>),
      IndexRow(<<"s", ".">> \o A_IO, <<"i", "o">>, A_IO, <<"/", "c">>) }

\* the filter has url_patterns and nothing else
OnlyUrlPatterns(filter_config) ==
    filter_config = [EmptyFilter EXCEPT !.url_patterns = filter_config.url_patterns]

\* the queries to_sql can return for a filter
Queries(filter_config, limit, count_only) ==
    { r.value : r \in { x \in { to_sql(filter_config, limit, count_only, order) :
                                    order \in IterationOrders(filter_config) } :
                        x.kind = "return" } }

(***************************************************************************)
(* C4: the values of url_patterns are alternatives: every index row that   *)
(* the query of one pattern alone selects is also selected by the query of *)
(* that pattern together with the others.                                  *)
(***************************************************************************)
C4_PatternsAreAlternatives ==
    (ToSqlDone /\ ret.kind = "return" /\ OnlyUrlPatterns(call.filter_config)) =>
        \A i \in 1..Len(call.filter_config.url_patterns) :
            \A alone \in Queries([call.filter_config EXCEPT
                                    !.url_patterns = <<call.filter_config.url_patterns[i]>>],
                                 call.limit, call.count_only) :
                \A row \in IndexRows : Selects(alone, row) => Selects(ret.value, row)

(***************************************************************************)
(* C8: no URL pattern is rejected: for a pattern the optimizer cannot      *)
(* classify because of a port, a query string, a fragment or extra         *)
(* wildcards, to_sql returns a query with a `url LIKE` condition on the    *)
(* pattern with * replaced by %.                                           *)
(***************************************************************************)
C8_Unclassifiable(pattern) ==
    /\ _parse_url_pattern(pattern).use_fallback
    /\ _parse_url_pattern(pattern).reason
            \in {"multiple wildcards in domain", "contains port/query/fragment"}

C8_UnclassifiableBecomesUrlLike ==
    (/\ ToSqlDone
     /\ OnlyUrlPatterns(call.filter_config)
     /\ Len(call.filter_config.url_patterns) = 1
     /\ C8_Unclassifiable(call.filter_config.url_patterns[1])) =>
        /\ ret.kind = "return"
        /\ \E i \in 1..Len(QueryLiterals(ret.value)) :
                /\ QueryLiterals(ret.value)[i].column = "url"
                /\ QueryLiterals(ret.value)[i].operator = " LIKE "
                /\ QueryLiterals(ret.value)[i].value
                        = replace(call.filter_config.url_patterns[1], "*", <<"%">>)

(***************************************************************************)
(* C9: merging is a set union per indexed column: a value that several     *)
(* patterns or explicit values yield appears once in the one condition of  *)
(* its column; two patterns of the exact-domain shape of one domain give   *)
(* the host-name condition that one of them gives; and all fallback        *)
(* patterns are in one OR-joined `url LIKE` group.                         *)
(***************************************************************************)
C9_NoDuplicates(s) == \A i, j \in 1..Len(s) : s[i] = s[j] => i = j

\* the texts of the conditions of a query on a column
C9_Conditions(query, column) ==
    { WhereConditions(query)[i] : i \in ColumnConditions(query, column) }

C9_ExactDomain(pattern) == _parse_url_pattern(pattern).reason = "exact domain pattern"

C9_UnionPerColumn ==
    (ToSqlDone /\ ret.kind = "return") =>
        LET f == call.filter_config
            ps == f.url_patterns
        IN  /\ \A column \in IndexedColumns :
                    /\ Cardinality(C9_Conditions(ret.value, column)) <= 1
                    /\ C9_NoDuplicates(ColumnLiterals(ret.value, column))
                    /\ Range(ColumnLiterals(ret.value, column)) = RequestedValues(f, column)
            /\ Cardinality(C9_Conditions(ret.value, "url")) <= 1
            /\ ColumnLiterals(ret.value, "url") = FallbackPatterns(f)
            /\ \A c \in C9_Conditions(ret.value, "url") :
                    /\ Len(SplitOn(c, " OR ")) = Len(FallbackPatterns(f))
                    /\ \A i \in 1..Len(Literals(c)) : Literals(c)[i].operator = " LIKE "
            /\ (/\ Len(ps) = 2
                /\ C9_ExactDomain(ps[1])
                /\ C9_ExactDomain(ps[2])
                /\ _parse_url_pattern(ps[1]).host_names = _parse_url_pattern(ps[2]).host_names) =>
                    \E one \in Queries([f EXCEPT !.url_patterns = <<ps[1]>>],
                                       call.limit, call.count_only) :
                        C9_Conditions(ret.value, "url_host_name")
                            = C9_Conditions(one, "url_host_name")

\* two spellings of one domain, both of the exact-domain shape, and a query
C9_Witness ==
    /\ ToSqlDone
    /\ ret.kind = "return"
    /\ Len(call.filter_config.url_patterns) = 2
    /\ call.filter_config.url_patterns[1] # call.filter_config.url_patterns[2]
    /\ C9_ExactDomain(call.filter_config.url_patterns[1])
    /\ C9_ExactDomain(call.filter_config.url_patterns[2])
    /\ Len(ColumnLiterals(ret.value, "url_host_name")) = 2

(***************************************************************************)
(* The Athena service, as the operations see it: the final status of the   *)
(* submitted query (_execute_query, _wait_for_completion) and, when it     *)
(* succeeded, what _get_query_results reads.                               *)
(***************************************************************************)
\* the wait ends with AthenaQueryError unless the status is SUCCEEDED
AthenaStates == { "SUCCEEDED", "FAILED", "CANCELLED", "TIMED_OUT" }

\* int(cell) for a cell of decimal digits
RECURSIVE int(_)
int(cell) ==
    IF cell = <<>> THEN 0
    ELSE 10 * int(SubSeq(cell, 1, Len(cell) - 1)) + (IndexIn(cell[Len(cell)], Digits) - 1)

\* cell.isdigit()
isdigit(cell) == cell # <<>> /\ AllChars(cell, IsDigit)

(***************************************************************************)
(* CCAthenaClient.search_with_filter                                       *)
(***************************************************************************)
\* AthenaSettings.max_results
MAX_RESULTS == 100

\* the parameters of search_with_filter, besides self
SEARCH_WITH_FILTER_PARAMETERS == { "filter_config", "limit" }

\* the body of search_with_filter.  athena.records are the records that the
\* loop over the result rows collects with _row_to_crawl_record.
search_with_filter_body(filter_config, limit, order, athena) ==
    With(to_sql(filter_config, IF limit = None THEN Some(MAX_RESULTS) ELSE limit,
                FALSE, order),
         LAMBDA query :
            IF query.kind = "raise" THEN query
            ELSE IF athena.state # "SUCCEEDED"
            THEN Raise("AthenaQueryError", "Athena search failed", <<>>)
            ELSE Return(athena.records))

\* the name of a keyword argument, as a str
KeywordName(k) == IF k = "crawl" THEN <<"c", "r", "a", "w", "l">> ELSE <<k>>

\* a call of search_with_filter with keyword arguments: a keyword that is
\* not a parameter raises TypeError before the body runs
search_with_filter(keywords, order, athena) ==
    LET unexpected == DOMAIN keywords \ SEARCH_WITH_FILTER_PARAMETERS
    IN  IF unexpected # {}
        THEN Raise("TypeError",
                   "search_with_filter() got an unexpected keyword argument",
                   KeywordName(CHOOSE k \in unexpected : TRUE))
        ELSE search_with_filter_body(keywords.filter_config, keywords.limit, order, athena)

(***************************************************************************)
(* lib.search.search, lib.fetch.fetch, lib.stats.stats                     *)
(***************************************************************************)
\* raise Exception(f"Search failed: {str(e)}")
search(filter_config, crawl, limit, order, athena) ==
    With(search_with_filter([filter_config |-> filter_config, limit |-> Some(limit),
                             crawl |-> crawl], order, athena),
         LAMBDA records :
            IF records.kind = "raise"
            THEN Raise("Exception", "Search failed: " \o records.msg, records.value)
            ELSE records)

SEARCH_DEFAULT_LIMIT == 10

\* the CrawlRecord fields fetch reads; filename, offset and length are
\* Optional
CrawlRecord(url, filename, offset, length) ==
    [url |-> url, filename |-> filename, offset |-> offset, length |-> length,
     status |-> 200, mime |-> "text/html", timestamp |-> "20240801000000"]

\* r'(CC-MAIN-\d{4}-\d{2})' matches in s at position i
CrawlIdAt(s, i) ==
    LET n == Len(CC_MAIN)
    IN  /\ At(CC_MAIN, s, i)
        /\ i + n + 6 <= Len(s)
        /\ AllChars(SubSeq(s, i + n, i + n + 3), IsDigit)
        /\ s[i + n + 4] = "-"
        /\ AllChars(SubSeq(s, i + n + 5, i + n + 6), IsDigit)

\* re.search(r'(CC-MAIN-\d{4}-\d{2})', record.filename) followed by
\* match.group(1): re.search returns None when nothing matches
FilenameCrawlId(filename) ==
    With({ i \in 1..Len(filename) : CrawlIdAt(filename, i) }, LAMBDA matches :
        IF matches = {}
        THEN Raise("AttributeError", "'NoneType' object has no attribute 'group'",
                   filename)
        ELSE Return(SubSeq(filename, Min(matches), Min(matches) + Len(CC_MAIN) + 6)))

\* the bytes S3 can hold at a record's range, by what gzip makes of them:
\* nothing, a whole gzip member, bytes without the gzip magic number, and a
\* gzip member that ends before its end-of-stream marker
ContentKinds == { "empty", "gzip", "plain", "truncated_gzip" }

\* what fetch_warc_content returns for a record (None after any exception)
\* and what process_warc_record makes of the WARC bytes (None or a dict)
FetchEnvironments ==
    { [raw_content |-> raw, processed |-> p] :
        raw \in {None} \cup { Some(k) : k \in ContentKinds },
        p \in { None, Some([word_count |-> 12]) } }

\* gzip.decompress(raw_content)
gzip_decompress(raw_content) ==
    CASE raw_content = "gzip" -> Return("warc")
      [] raw_content = "plain" -> Raise("BadGzipFile", "Not a gzipped file", raw_content)
      [] raw_content = "truncated_gzip" ->
            Raise("EOFError",
                  "Compressed file ended before the end-of-stream marker was reached",
                  raw_content)
      [] OTHER -> Return("")

\* the body of `for i, record in enumerate(records, 1)`: the pair appended
\* to results, or the exception that leaves the loop
fetch_record(record, env) ==
    IF \/ record.filename = None \/ record.filename[1] = <<>>
       \/ record.offset = None \/ record.offset[1] = 0
       \/ record.length = None \/ record.length[1] = 0
    THEN Return(<<record, None>>)
    ELSE IF env.raw_content = None \/ env.raw_content[1] = "empty"
    THEN Return(<<record, None>>)
    ELSE
    With(gzip_decompress(env.raw_content[1]), LAMBDA decompressed :
        IF decompressed.kind = "raise" /\ decompressed.exc # "BadGzipFile"
        THEN decompressed
        ELSE IF env.processed = None
        THEN Return(<<record, None>>)
        ELSE
        With(FilenameCrawlId(record.filename[1]), LAMBDA crawl_id :
            IF crawl_id.kind = "raise" THEN crawl_id
            ELSE Return(<<record,
                          Some([word_count |-> env.processed[1].word_count,
                                crawl_metadata |->
                                    [url |-> record.url, status |-> record.status,
                                     mime |-> record.mime,
                                     timestamp |-> record.timestamp,
                                     crawl |-> crawl_id.value,
                                     length |-> record.length[1]]])>>)))

\* the statements of fetch after the call of search
fetch_records(records, envs) ==
    IF records = <<>> THEN Return(<<>>)
    ELSE Each([i \in 1..Len(records) |-> fetch_record(records[i], envs[i])])

\* fetch passes its limit as the third positional argument of search, which
\* is crawl; search then uses its default limit.  The statements after the
\* call of search run when search returns.
fetch(filter_config, limit, order, athena, envs) ==
    With(search(filter_config, limit, SEARCH_DEFAULT_LIMIT, order, athena), LAMBDA records :
        IF records.kind = "raise" THEN records
        ELSE fetch_records(records.value, envs))

(***************************************************************************)
(* A query as the str that Python holds: one character after another.      *)
(***************************************************************************)
\* the characters of a piece of query text that the builder writes as a
\* whole; every other piece is one character
Spelling(piece) ==
    CASE piece = SELECT_COUNT ->
          << "S", "E", "L", "E", "C", "T", " ", "C", "O", "U", "N", "T", "(",
            "*", ")" >>
      [] piece = SELECT_COLUMNS ->
          << "S", "E", "L", "E", "C", "T", "\n", " ", " ", " ", " ", " ", " ",
            " ", " ", " ", " ", " ", " ", " ", " ", " ", " ", "u", "r", "l",
            ",", "\n", " ", " ", " ", " ", " ", " ", " ", " ", " ", " ", " ",
            " ", " ", " ", " ", " ", "u", "r", "l", "_", "h", "o", "s", "t",
            "_", "n", "a", "m", "e", ",", "\n", " ", " ", " ", " ", " ", " ",
            " ", " ", " ", " ", " ", " ", " ", " ", " ", " ", "f", "e", "t",
            "c", "h", "_", "t", "i", "m", "e", ",", "\n", " ", " ", " ", " ",
            " ", " ", " ", " ", " ", " ", " ", " ", " ", " ", " ", " ", "f",
            "e", "t", "c", "h", "_", "s", "t", "a", "t", "u", "s", ",", "\n",
            " ", " ", " ", " ", " ", " ", " ", " ", " ", " ", " ", " ", " ",
            " ", " ", " ", "c", "o", "n", "t", "e", "n", "t", "_", "m", "i",
            "m", "e", "_", "t", "y", "p", "e", ",", "\n", " ", " ", " ", " ",
            " ", " ", " ", " ", " ", " ", " ", " ", " ", " ", " ", " ", "c",
            "o", "n", "t", "e", "n", "t", "_", "c", "h", "a", "r", "s", "e",
            "t", ",", "\n", " ", " ", " ", " ", " ", " ", " ", " ", " ", " ",
            " ", " ", " ", " ", " ", " ", "c", "o", "n", "t", "e", "n", "t",
            "_", "l", "a", "n", "g", "u", "a", "g", "e", "s", ",", "\n", " ",
            " ", " ", " ", " ", " ", " ", " ", " ", " ", " ", " ", " ", " ",
            " ", " ", "w", "a", "r", "c", "_", "f", "i", "l", "e", "n", "a",
            "m", "e", ",", "\n", " ", " ", " ", " ", " ", " ", " ", " ", " ",
            " ", " ", " ", " ", " ", " ", " ", "w", "a", "r", "c", "_", "r",
            "e", "c", "o", "r", "d", "_", "o", "f", "f", "s", "e", "t", ",",
            "\n", " ", " ", " ", " ", " ", " ", " ", " ", " ", " ", " ", " ",
            " ", " ", " ", " ", "w", "a", "r", "c", "_", "r", "e", "c", "o",
            "r", "d", "_", "l", "e", "n", "g", "t", "h" >>
      [] piece = INDENT_8 ->
          << "\n", " ", " ", " ", " ", " ", " ", " ", " " >>
      [] piece = INDENT_12 ->
          << "\n", " ", " ", " ", " ", " ", " ", " ", " ", " ", " ", " ", " " >>
      [] piece = "\n        FROM " ->
          << "\n", " ", " ", " ", " ", " ", " ", " ", " ", "F", "R", "O", "M",
            " " >>
      [] piece = "\n        WHERE " ->
          << "\n", " ", " ", " ", " ", " ", " ", " ", " ", "W", "H", "E", "R",
            "E", " " >>
      [] piece = "ccindex" ->
          << "c", "c", "i", "n", "d", "e", "x" >>
      [] piece = " AND " ->
          << " ", "A", "N", "D", " " >>
      [] piece = " OR " ->
          << " ", "O", "R", " " >>
      [] piece = " = " ->
          << " ", "=", " " >>
      [] piece = " IN (" ->
          << " ", "I", "N", " ", "(" >>
      [] piece = " LIKE " ->
          << " ", "L", "I", "K", "E", " " >>
      [] piece = " >= " ->
          << " ", ">", "=", " " >>
      [] piece = " <= " ->
          << " ", "<", "=", " " >>
      [] piece = " LIMIT " ->
          << " ", "L", "I", "M", "I", "T", " " >>
      [] piece = "crawl" ->
          << "c", "r", "a", "w", "l" >>
      [] piece = "subset" ->
          << "s", "u", "b", "s", "e", "t" >>
      [] piece = "url_host_tld" ->
          << "u", "r", "l", "_", "h", "o", "s", "t", "_", "t", "l", "d" >>
      [] piece = "url_host_registered_domain" ->
          << "u", "r", "l", "_", "h", "o", "s", "t", "_", "r", "e", "g", "i",
            "s", "t", "e", "r", "e", "d", "_", "d", "o", "m", "a", "i", "n" >>
      [] piece = "url_host_name" ->
          << "u", "r", "l", "_", "h", "o", "s", "t", "_", "n", "a", "m", "e" >>
      [] piece = "url_path" ->
          << "u", "r", "l", "_", "p", "a", "t", "h" >>
      [] piece = "url" ->
          << "u", "r", "l" >>
      [] piece = "fetch_status" ->
          << "f", "e", "t", "c", "h", "_", "s", "t", "a", "t", "u", "s" >>
      [] piece = "content_mime_type" ->
          << "c", "o", "n", "t", "e", "n", "t", "_", "m", "i", "m", "e", "_",
            "t", "y", "p", "e" >>
      [] piece = "content_languages" ->
          << "c", "o", "n", "t", "e", "n", "t", "_", "l", "a", "n", "g", "u",
            "a", "g", "e", "s" >>
      [] piece = "content_charset" ->
          << "c", "o", "n", "t", "e", "n", "t", "_", "c", "h", "a", "r", "s",
            "e", "t" >>
      [] piece = "fetch_time" ->
          << "f", "e", "t", "c", "h", "_", "t", "i", "m", "e" >>
      [] OTHER -> <<piece>>

\* the text of a sequence of pieces, character by character
RECURSIVE Characters(_)
Characters(pieces) ==
    IF Len(pieces) = 0 THEN <<>>
    ELSE IF Len(pieces) = 1 THEN Spelling(pieces[1])
    ELSE Characters(SubSeq(pieces, 1, Len(pieces) \div 2))
         \o Characters(SubSeq(pieces, Len(pieces) \div 2 + 1, Len(pieces)))

\* str.replace(old, new): every occurrence, from the left, without overlap
RECURSIVE replace_str(_, _, _)
replace_str(s, old, new) ==
    With({ i \in 1..Len(s) : At(old, s, i) }, LAMBDA at :
        IF at = {} THEN s
        ELSE SubSeq(s, 1, Min(at) - 1) \o new
             \o replace_str(SubSeq(s, Min(at) + Len(old), Len(s)), old, new))

\* \s* from position i: the first position that holds no white space
SkipSpace(s, i) == Min({ j \in i..Len(s) : ~IsSpace(s[j]) } \cup {Len(s) + 1})

\* an opening character at position i, one or more characters that are not
\* `close`, then `close` and \s*: the position after the match, or 0
Enclosed(s, i, open, close) ==
    IF i > Len(s) \/ s[i] # open THEN 0
    ELSE With({ k \in (i + 1)..Len(s) : s[k] = close }, LAMBDA closing :
            IF closing = {} \/ Min(closing) = i + 1 THEN 0
            ELSE SkipSpace(s, Min(closing) + 1))

\* r"crawl\s*(?:=\s*'[^']+'\s*|IN\s*\([^)]+\)\s*)AND\s+" at position i: the
\* position after the match, or 0
CrawlFilterEnd(s, i) ==
    IF ~At(<<"c", "r", "a", "w", "l">>, s, i) THEN 0
    ELSE With(SkipSpace(s, i + 5), LAMBDA operator :
         With(IF At(<<"=">>, s, operator)
              THEN Enclosed(s, SkipSpace(s, operator + 1), "'", "'")
              ELSE IF At(<<"I", "N">>, s, operator)
              THEN Enclosed(s, SkipSpace(s, operator + 2), "(", ")")
              ELSE 0,
              LAMBDA and :
                IF and = 0 \/ ~At(<<"A", "N", "D">>, s, and) THEN 0
                ELSE IF and + 3 > Len(s) \/ ~IsSpace(s[and + 3]) THEN 0
                ELSE SkipSpace(s, and + 3)))

\* re.sub(r"crawl\s*(?:=\s*'[^']+'\s*|IN\s*\([^)]+\)\s*)AND\s+", "", s)
RECURSIVE remove_crawl_filter(_)
remove_crawl_filter(s) ==
    With({ i \in 1..Len(s) : CrawlFilterEnd(s, i) # 0 }, LAMBDA at :
        IF at = {} THEN s
        ELSE SubSeq(s, 1, Min(at) - 1)
             \o remove_crawl_filter(SubSeq(s, CrawlFilterEnd(s, Min(at)), Len(s))))

ALL == <<"A", "L", "L">>

\* the StatsResponse of the except branch
ErrorStats ==
    [per_crawl_stats |-> <<>>, total_estimated_records |-> 0,
     data_scanned_bytes |-> 0, backend |-> "error"]

\* the filter stats compiles: for the single identifier ALL, the filter
\* with the default crawl in its place
StatsFilter(filter_config) ==
    IF /\ filter_config.crawl_ids # <<>>
       /\ Len(filter_config.crawl_ids) = 1
       /\ upper(filter_config.crawl_ids[1]) = ALL
    THEN [filter_config EXCEPT !.crawl_ids = <<DEFAULT_CRAWL>>]
    ELSE filter_config

\* "SELECT crawl, COUNT(*) as record_count"
SELECT_CRAWL_COUNT ==
    << "S", "E", "L", "E", "C", "T", " ", "c", "r", "a", "w", "l", ",", " ",
       "C", "O", "U", "N", "T", "(", "*", ")", " ", "a", "s", " ",
       "r", "e", "c", "o", "r", "d", "_", "c", "o", "u", "n", "t" >>

\* " GROUP BY crawl ORDER BY crawl DESC"
GROUP_BY_CRAWL ==
    << " ", "G", "R", "O", "U", "P", " ", "B", "Y", " ", "c", "r", "a", "w", "l", " ",
       "O", "R", "D", "E", "R", " ", "B", "Y", " ", "c", "r", "a", "w", "l", " ",
       "D", "E", "S", "C" >>

\* query_all_crawls
QueryAllCrawls(filter_config) ==
    /\ filter_config.crawl_ids # <<>>
    /\ Len(filter_config.crawl_ids) = 1
    /\ upper(filter_config.crawl_ids[1]) = ALL

\* grouped_query, the query stats executes, character by character
grouped_query(filter_config, order) ==
    With(to_sql(StatsFilter(filter_config), None, TRUE, order), LAMBDA base_query :
        IF base_query.kind = "raise" THEN base_query
        ELSE With(replace_str(Characters(base_query.value), Spelling(SELECT_COUNT),
                              SELECT_CRAWL_COUNT),
                  LAMBDA replaced :
                    Return((IF QueryAllCrawls(filter_config)
                            THEN remove_crawl_filter(replaced)
                            ELSE replaced) \o GROUP_BY_CRAWL)))

\* `for row in results`: the rows with at least two cells
RECURSIVE StatsRows(_)
StatsRows(results) ==
    IF results = <<>> THEN <<>>
    ELSE (IF Len(Head(results)) >= 2
          THEN <<[crawl_id |-> Head(results)[1],
                  estimated_records |->
                      IF isdigit(Head(results)[2]) THEN int(Head(results)[2]) ELSE 0]>>
          ELSE <<>>)
         \o StatsRows(Tail(results))

RECURSIVE SumRecords(_)
SumRecords(per_crawl_stats) ==
    IF per_crawl_stats = <<>> THEN 0
    ELSE Head(per_crawl_stats).estimated_records + SumRecords(Tail(per_crawl_stats))

\* stats: every exception of the body ends in the except branch.  The sizes
\* and costs of the response are data_scanned_bytes times constants.
stats(filter_config, order, athena) ==
    With(grouped_query(filter_config, order), LAMBDA query :
        IF query.kind = "raise" THEN Return(ErrorStats)
        ELSE IF athena.state # "SUCCEEDED" THEN Return(ErrorStats)
        ELSE With(StatsRows(athena.results), LAMBDA per_crawl_stats :
                Return([per_crawl_stats |-> per_crawl_stats,
                        total_estimated_records |-> SumRecords(per_crawl_stats),
                        data_scanned_bytes |-> athena.data_scanned_bytes,
                        backend |-> "athena"])))

(***************************************************************************)
(* Calls of the public operations.                                         *)
(***************************************************************************)
\* the custom condition a = 'crawl IN (1) AND b'
CRAWL_IN_LITERAL ==
    <<"a", " ", "=", " ", "'", "c", "r", "a", "w", "l", " ", "I", "N", " ", "(", "1", ")",
      " ", "A", "N", "D", " ", "b", "'">>

OpsFilters ==
    { EmptyFilter,
      [EmptyFilter EXCEPT !.url_patterns = <<A_IO>>],
      [EmptyFilter EXCEPT !.url_patterns = <<A_IO \o <<"?", "q">>>>],
      [EmptyFilter EXCEPT !.crawl_ids = << <<"b", "a", "d">> >>],
      [EmptyFilter EXCEPT !.crawl_ids = << <<"a", "l", "l">> >>],
      [EmptyFilter EXCEPT !.crawl_ids = << <<"a", "l", "l">> >>,
                          !.url_host_names = <<BAD_STRING>>],
      [EmptyFilter EXCEPT !.url_host_names = <<BAD_STRING>>],
      [EmptyFilter EXCEPT !.status_codes = <<600>>],
      [EmptyFilter EXCEPT !.custom_filters = <<BAD_STRING>>],
      [EmptyFilter EXCEPT !.crawl_ids = << <<"A", "L", "L">> >>,
                          !.url_patterns = <<A_IO>>],
      [EmptyFilter EXCEPT !.crawl_ids = << <<"A", "L", "L">> >>,
                          !.custom_filters = <<CRAWL_IN_LITERAL>>],
      [FullFilter EXCEPT !.crawl_ids = << <<"A", "l", "l">> >>],
      FullFilter }

OpsLimits == { 0, 10, 100001 }

\* the result rows of a grouped count: crawl identifier and count
StatsResults ==
    { <<>>,
      << <<DEFAULT_CRAWL, <<"1", "2">>>> >>,
      << <<DEFAULT_CRAWL, <<"7">>>>, <<DEFAULT_CRAWL, <<"x">>>>, <<DEFAULT_CRAWL>> >> }

SEGMENT == <<"c", "/">> \o DEFAULT_CRAWL \o <<"/", "s">>

RECORD_1 == CrawlRecord("http://a.io/", Some(SEGMENT), Some(7), Some(9))

RECORD_2 == CrawlRecord("http://a.io/b", Some(SEGMENT), Some(16), Some(9))

\* the records of a row-listing query
RecordLists == { <<>>, <<RECORD_1>>, <<RECORD_1, RECORD_2>> }

AthenaOutcomes ==
    { [state |-> st, results |-> <<>>, records |-> <<>>, data_scanned_bytes |-> 0] :
        st \in AthenaStates \ {"SUCCEEDED"} }
    \cup { [state |-> "SUCCEEDED", results |-> rows, records |-> <<>>,
            data_scanned_bytes |-> b] : rows \in StatsResults, b \in {0, 1048576} }
    \cup { [state |-> "SUCCEEDED", results |-> <<>>, records |-> rs,
            data_scanned_bytes |-> 0] : rs \in RecordLists }

OpsCalls ==
    { [fn |-> "search", filter_config |-> f, crawl |-> DEFAULT_CRAWL, limit |-> l] :
        f \in OpsFilters, l \in OpsLimits }
    \cup { [fn |-> "fetch", filter_config |-> f, limit |-> l] :
            f \in OpsFilters, l \in OpsLimits }
    \cup { [fn |-> "stats", filter_config |-> f] : f \in OpsFilters }
    \cup { [fn |-> "search_with_filter", filter_config |-> f, limit |-> l] :
            f \in OpsFilters, l \in {None} \cup { Some(n) : n \in OpsLimits } }

InitOps ==
    /\ pc = "call"
    /\ call \in OpsCalls
    /\ ret = NotCalled

\* athena_client.search_with_filter(filter_config, limit)
CallSearchWithFilter ==
    /\ pc = "call"
    /\ call.fn = "search_with_filter"
    /\ \E order \in IterationOrders(call.filter_config), athena \in AthenaOutcomes :
            ret' = search_with_filter([filter_config |-> call.filter_config,
                                       limit |-> call.limit], order, athena)
    /\ pc' = "done"
    /\ UNCHANGED call

\* search(filter_config, athena_client, crawl, limit)
CallSearch ==
    /\ pc = "call"
    /\ call.fn = "search"
    /\ \E order \in IterationOrders(call.filter_config), athena \in AthenaOutcomes :
            ret' = search(call.filter_config, call.crawl, call.limit, order, athena)
    /\ pc' = "done"
    /\ UNCHANGED call

\* fetch(filter_config, athena_client, s3_client, limit)
CallFetch ==
    /\ pc = "call"
    /\ call.fn = "fetch"
    /\ \E order \in IterationOrders(call.filter_config), athena \in AthenaOutcomes,
          envs \in [1..2 -> FetchEnvironments] :
            ret' = fetch(call.filter_config, call.limit, order, athena, envs)
    /\ pc' = "done"
    /\ UNCHANGED call

\* stats(filter_config, athena_client)
CallStats ==
    /\ pc = "call"
    /\ call.fn = "stats"
    /\ \E order \in IterationOrders(StatsFilter(call.filter_config)),
          athena \in AthenaOutcomes :
            ret' = stats(call.filter_config, order, athena)
    /\ pc' = "done"
    /\ UNCHANGED call

NextOps == CallSearchWithFilter \/ CallSearch \/ CallFetch \/ CallStats

SpecOps == InitOps /\ [][NextOps]_vars

OpsDone == pc = "done" /\ call.fn \in {"search", "fetch", "stats", "search_with_filter"}

\* the results to_sql can have for a filter
CompileResults(filter_config, limit, count_only) ==
    { to_sql(filter_config, limit, count_only, order) :
        order \in IterationOrders(filter_config) }

(***************************************************************************)
(* C10: a validation failure raised while compiling the filter is fatal to *)
(* search, fetch and stats: the operation ends with an error that names    *)
(* the offending value, never with a return value.                         *)
(***************************************************************************)
\* the results of the to_sql call that the operation of this call makes
C10_Compiled ==
    CASE call.fn = "stats" ->
            CompileResults(StatsFilter(call.filter_config), None, TRUE)
      [] call.fn = "search" ->
            CompileResults(call.filter_config, Some(call.limit), FALSE)
      [] call.fn = "fetch" ->
            CompileResults(call.filter_config, Some(SEARCH_DEFAULT_LIMIT), FALSE)
      [] OTHER -> {}

C10_ValidationFailureIsFatal ==
    (/\ pc = "done"
     /\ call.fn \in {"search", "fetch", "stats"}
     /\ \A r \in C10_Compiled : r.kind = "raise") =>
        /\ ret.kind = "raise"
        /\ \E r \in C10_Compiled : ret.value = r.value

(***************************************************************************)
(* fetch after search has returned: the loop over the records, one record  *)
(* at a time.                                                              *)
(***************************************************************************)
\* a filename that holds no crawl identifier
SEGMENT_PLAIN == <<"c", "/", "s">>

RecordSamples ==
    { RECORD_1,
      CrawlRecord("http://a.io/n", None, Some(7), Some(9)),
      CrawlRecord("http://a.io/0", Some(SEGMENT), Some(0), Some(9)),
      CrawlRecord("http://a.io/l", Some(SEGMENT), Some(7), None),
      CrawlRecord("http://a.io/p", Some(SEGMENT_PLAIN), Some(7), Some(9)) }

MaxRecords == 2

FetchCalls ==
    { [fn |-> "fetch_records", records |-> rs] : rs \in Lists(RecordSamples, MaxRecords) }

InitFetch ==
    /\ pc = "call"
    /\ call \in FetchCalls
    /\ ret = NotCalled

\* `if not records: return []`, then `results = []`
FetchStart ==
    /\ pc = "call"
    /\ call.fn = "fetch_records"
    /\ IF call.records = <<>>
       THEN ret' = Return(<<>>) /\ pc' = "done"
       ELSE ret' = [kind |-> "running", results |-> <<>>] /\ pc' = "loop"
    /\ UNCHANGED call

\* one pass of the loop body, for the next record
FetchRecord ==
    /\ pc = "loop"
    /\ Len(ret.results) < Len(call.records)
    /\ \E env \in FetchEnvironments :
        LET pair == fetch_record(call.records[Len(ret.results) + 1], env)
        IN  IF pair.kind = "raise"
            THEN ret' = pair /\ pc' = "done"
            ELSE /\ ret' = [ret EXCEPT !.results = Append(@, pair.value)]
                 /\ pc' = "loop"
    /\ UNCHANGED call

\* `return results` after the last record
FetchReturn ==
    /\ pc = "loop"
    /\ Len(ret.results) = Len(call.records)
    /\ ret' = Return(ret.results)
    /\ pc' = "done"
    /\ UNCHANGED call

NextFetch == FetchStart \/ FetchRecord \/ FetchReturn

SpecFetch == InitFetch /\ [][NextFetch]_vars

(***************************************************************************)
(* C11: fetch returns exactly one (record, result) pair for every record   *)
(* that search returned, in the same order; a failure for one record is    *)
(* recorded as None for that record and never raises out of fetch.         *)
(***************************************************************************)
\* every filename names its crawl, as the filenames of the index do
C11_FilenamesNameTheCrawl ==
    \A i \in 1..Len(call.records) :
        call.records[i].filename # None =>
            FilenameCrawlId(call.records[i].filename[1]).kind = "return"

C11_OnePairPerRecord ==
    (pc = "done" /\ call.fn = "fetch_records" /\ C11_FilenamesNameTheCrawl) =>
        /\ ret.kind = "return"
        /\ Len(ret.value) = Len(call.records)
        /\ \A i \in 1..Len(call.records) : ret.value[i][1] = call.records[i]

\* the sequence s ends with the sequence suffix
EndsWith(s, suffix) ==
    /\ Len(suffix) <= Len(s)
    /\ SubSeq(s, Len(s) - Len(suffix) + 1, Len(s)) = suffix

(***************************************************************************)
(* C12: the limit of a row-listing query is validated to 1..100000: with a *)
(* limit inside the range a returned query ends with LIMIT <limit>, and    *)
(* with an integer limit outside the range (zero, negative, above 100000)  *)
(* to_sql raises instead of returning a query.                             *)
(***************************************************************************)
C12_LimitValidated ==
    (ToSqlDone /\ ~call.count_only /\ call.limit # None) =>
        IF LIMIT_MIN <= call.limit[1] /\ call.limit[1] <= LIMIT_MAX
        THEN ret.kind = "return" =>
                EndsWith(ret.value, <<" LIMIT ">> \o str(call.limit[1]))
        ELSE ret.kind = "raise"

\* a date of the format yyyy, yyyyMM or yyyyMMdd
DateFormat(date) == Len(date) \in {4, 6, 8} /\ AllChars(date, IsDigit)

\* a supplied date is validated and rendered: the query holds its condition
\* when it has the format, and the call raises when it has not
DateValidated(date, operator) ==
    date # None =>
        IF DateFormat(date[1])
        THEN ret.kind = "return" =>
                (<<"fetch_time", operator>> \o Quoted(date[1]))
                    \in Range(WhereConditions(ret.value))
        ELSE ret.kind = "raise"

(***************************************************************************)
(* C13: date_from and date_to are rendered into the fetch_time >= and      *)
(* fetch_time <= conditions only when they have the format yyyy, yyyyMM or *)
(* yyyyMMdd; any other date value makes to_sql raise, and a supplied date  *)
(* is never silently left out of the query.                                *)
(***************************************************************************)
C13_DatesValidated ==
    ToSqlDone =>
        /\ DateValidated(call.filter_config.date_from, " >= ")
        /\ DateValidated(call.filter_config.date_to, " <= ")

\* an identifier of the shape CC-MAIN-YYYY-NN, in either case
HasCrawlIdShape(crawl_id) ==
    Len(crawl_id) = Len(DEFAULT_CRAWL) /\ CrawlIdAt(upper(crawl_id), 1)

\* the identifiers of the call are all exact ones
ExactCrawlIds(crawl_ids) ==
    /\ crawl_ids # <<>>
    /\ \A i \in 1..Len(crawl_ids) : ~IsCrawlPattern(crawl_ids[i])

\* validating a validated identifier returns it unchanged
ValidationIdempotent(crawl_id) ==
    _validate_crawl_id(crawl_id).kind = "return" =>
        _validate_crawl_id(_validate_crawl_id(crawl_id).value) = Return(crawl_id)

(***************************************************************************)
(* C14: exact crawl identifiers are validated case-insensitively and       *)
(* idempotently: identifiers of the shape CC-MAIN-YYYY-NN in any case      *)
(* compile to the crawl condition of their upper-case spelling, validating *)
(* a validated identifier returns it unchanged, and an exact identifier    *)
(* that does not have the shape raises a validation error.                 *)
(***************************************************************************)
C14_ExactCrawlIdsValidated ==
    (ToSqlDone /\ ExactCrawlIds(call.filter_config.crawl_ids)) =>
        LET crawl_ids == call.filter_config.crawl_ids
            uppers == [i \in 1..Len(crawl_ids) |-> upper(crawl_ids[i])]
        IN  /\ \A i \in 1..Len(crawl_ids) : ValidationIdempotent(uppers[i])
            /\ IF \A i \in 1..Len(crawl_ids) : HasCrawlIdShape(crawl_ids[i])
               THEN ret.kind = "return" =>
                        WhereConditions(ret.value)[1]
                            = _build_exact_match_condition("crawl", uppers)
               ELSE ret.kind = "raise"

\* the members of a list that satisfy a flag, in order
Select(values, flags) ==
    LET at == IndicesWhere(flags)
    IN  [i \in 1..Len(at) |-> values[at[i]]]

\* the glob identifiers of a list as LIKE patterns, and its exact ones
GlobPatterns(crawl_ids) ==
    Select([i \in 1..Len(crawl_ids) |-> NormalizedCrawlId(crawl_ids[i])],
           [i \in 1..Len(crawl_ids) |-> IsCrawlPattern(crawl_ids[i])])

ExactIdentifiers(crawl_ids) ==
    Select([i \in 1..Len(crawl_ids) |-> NormalizedCrawlId(crawl_ids[i])],
           [i \in 1..Len(crawl_ids) |-> ~IsCrawlPattern(crawl_ids[i])])

\* the values of the literals of a text that stand after LIKE, and the
\* values of those that stand after = or IN
LikeLiterals(text) ==
    LET all == Literals(text)
    IN  Select([i \in 1..Len(all) |-> all[i].value],
               [i \in 1..Len(all) |-> all[i].column = "crawl" /\ all[i].operator = " LIKE "])

EqualityLiterals(text) ==
    LET all == Literals(text)
    IN  Select([i \in 1..Len(all) |-> all[i].value],
               [i \in 1..Len(all) |->
                    all[i].column = "crawl" /\ all[i].operator \in {" = ", " IN ("}])

\* text is ( exact OR like ): one parenthesised condition whose first group
\* holds the equality literals and whose second group holds the LIKE ones
IsExactOrLike(text, exact, like) ==
    /\ Len(text) >= 2
    /\ text[1] = "("
    /\ text[Len(text)] = ")"
    /\ \E k \in 2..(Len(text) - 1) :
        /\ text[k] = " OR "
        /\ EqualityLiterals(SubSeq(text, 2, k - 1)) = exact
        /\ LikeLiterals(SubSeq(text, 2, k - 1)) = <<>>
        /\ LikeLiterals(SubSeq(text, k + 1, Len(text) - 1)) = like
        /\ EqualityLiterals(SubSeq(text, k + 1, Len(text) - 1)) = <<>>

(***************************************************************************)
(* C15: a crawl identifier containing * or ? is compiled to a crawl LIKE   *)
(* condition with * rendered as % and ? as _, never to an equality or IN   *)
(* member; when a filter has both exact and glob identifiers, the exact    *)
(* group and the LIKE group are joined with OR inside one parenthesised    *)
(* crawl condition.                                                        *)
(***************************************************************************)
C15_GlobsCompileToLike ==
    (/\ ToSqlDone
     /\ ret.kind = "return"
     /\ GlobPatterns(call.filter_config.crawl_ids) # <<>>) =>
        LET crawl_ids == call.filter_config.crawl_ids
            crawl_condition == WhereConditions(ret.value)[1]
        IN  /\ LikeLiterals(crawl_condition) = GlobPatterns(crawl_ids)
            /\ EqualityLiterals(crawl_condition) = ExactIdentifiers(crawl_ids)
            /\ ExactIdentifiers(crawl_ids) # <<>> =>
                    IsExactOrLike(crawl_condition, ExactIdentifiers(crawl_ids),
                                  GlobPatterns(crawl_ids))

\* a query for an exact identifier and a ? glob
C15_Witness ==
    /\ ToSqlDone
    /\ ret.kind = "return"
    /\ call.filter_config.crawl_ids
        = <<DEFAULT_CRAWL, CC_MAIN \o <<"2", "0", "2", "4", "-", "3", "?">>>>
    /\ WhereConditions(ret.value)[1]
        = <<"(", "crawl", " = ">> \o Quoted(DEFAULT_CRAWL)
          \o <<" OR ", "crawl", " LIKE ">>
          \o Quoted(CC_MAIN \o <<"2", "0", "2", "4", "-", "3", "_">>) \o <<")">>

\* crawl = 'CC-MAIN-2024-33'
DefaultCrawlEquality ==
    <<"crawl", " = ", "'", "C", "C", "-", "M", "A", "I", "N", "-",
      "2", "0", "2", "4", "-", "3", "3", "'">>

FromClause(query) ==
    LET from == CHOOSE i \in 1..Len(query) : query[i] = "\n        FROM "
        where == CHOOSE i \in 1..Len(query) : query[i] = "\n        WHERE "
    IN  SubSeq(query, from, where)

(***************************************************************************)
(* C17: for every valid filter, to_sql(count_only=True) has the same FROM  *)
(* and WHERE clause, with the same conditions in the same order, as        *)
(* to_sql(count_only=False) for that filter, projects the count of all    *)
(* rows instead of the column list, and has no LIMIT whatever limit the    *)
(* builder was given.                                                      *)
(***************************************************************************)
C17_CountOnlySameClauses ==
    (ToSqlDone /\ call.count_only /\ ret.kind = "return") =>
        /\ ret.value[1] = "SELECT COUNT(*)"
        /\ ret.value[2] = "\n        FROM "
        /\ " LIMIT " \notin Range(ret.value)
        /\ \A order \in IterationOrders(call.filter_config) :
            ret = to_sql(call.filter_config, call.limit, TRUE, order) =>
                LET rows == to_sql(call.filter_config, call.limit, FALSE, order)
                IN  rows.kind = "return" =>
                        /\ FromClause(ret.value) = FromClause(rows.value)
                        /\ WhereConditions(ret.value) = WhereConditions(rows.value)

\* a counting query of the full filter, made by a builder with a limit
C17_Witness ==
    /\ ToSqlDone
    /\ call.count_only
    /\ call.limit = Some(5)
    /\ call.filter_config = FullFilter
    /\ ret.kind = "return"
    /\ Len(WhereConditions(ret.value)) > 10

(***************************************************************************)
(* C18: when crawl_ids is the single sentinel ALL, in any letter case, the *)
(* query stats executes projects crawl and the count, has no predicate on  *)
(* the crawl column, keeps unchanged every other condition of the count    *)
(* query of the filter, and ends with GROUP BY crawl ORDER BY crawl DESC.  *)
(***************************************************************************)
\* the grouped query of the claim, from the count query of the filter
\* without the sentinel: its conditions after the one on crawl
C18_Expected(count_query) ==
    SELECT_CRAWL_COUNT
    \o Characters(<<"\n        FROM ", "ccindex", ".", "ccindex", "\n        WHERE ">>)
    \o Characters(Join(Tail(WhereConditions(count_query)), <<" AND ">>))
    \o GROUP_BY_CRAWL

C18_AllCrawlsQuery ==
    (/\ OpsDone
     /\ call.fn = "stats"
     /\ Len(call.filter_config.crawl_ids) = 1
     /\ upper(call.filter_config.crawl_ids[1]) = <<"A", "L", "L">>) =>
        LET others == [call.filter_config EXCEPT !.crawl_ids = <<>>]
        IN  \A order \in IterationOrders(others) :
                LET count_query == to_sql(others, None, TRUE, order)
                    executed == grouped_query(call.filter_config, order)
                IN  count_query.kind = "return" =>
                        executed = Return(C18_Expected(count_query.value))

(***************************************************************************)
(* WARCTextProcessor.chunk_text.  Positions of the text count from 0, as   *)
(* in Python; text[i:j] holds the positions i..j-1.                        *)
(***************************************************************************)
Max(S) == CHOOSE x \in S : \A y \in S : y <= x

\* an index of a slice of a str of length n, as Python reads it: a negative
\* index counts from the end, and indices are clipped to 0..n
SliceIndex(i, n) ==
    IF i < 0 THEN (IF n + i < 0 THEN 0 ELSE n + i)
    ELSE IF i > n THEN n ELSE i

\* text[from:to], for positions already clipped
Slice(text, from, to) == SubSeq(text, from + 1, to)

\* text.rfind(c, start, end)
rfind(text, c, start, end) ==
    With({ i \in SliceIndex(start, Len(text))..(SliceIndex(end, Len(text)) - 1) :
                text[i + 1] = c },
         LAMBDA at : IF at = {} THEN -1 ELSE Max(at))

\* a chunk with the positions of the text it holds
Chunk(text, from, to) == [chunk |-> Slice(text, from, to), from |-> from, to |-> to]

\* `end` of one pass of the loop that is not the last one
ChunkEnd(text, chunk_size, start) ==
    With(rfind(text, ".", start, start + chunk_size), LAMBDA sentence_end :
        IF sentence_end > start + (chunk_size \div 2)
        THEN sentence_end + 1
        ELSE start + chunk_size)

\* a start that leaves the overlap out
NextStart_after_end(end, overlap) == end + 1

\* a start at the end of the previous window
NextStart_without_overlap(end, overlap) == end

\* start = end - overlap
NextStart(end, overlap) == end - overlap

\* chunk.strip() of a chunk that holds something besides white space
Stripped(text, c) ==
    With({ i \in c.from..(c.to - 1) : ~IsSpace(text[i + 1]) }, LAMBDA inside :
        Chunk(text, Min(inside), Max(inside) + 1))

\* [chunk.strip() for chunk in chunks if chunk.strip()]
RECURSIVE StripChunks(_, _)
StripChunks(text, chunks) ==
    IF chunks = <<>> THEN <<>>
    ELSE (IF AllChars(Head(chunks).chunk, IsSpace) THEN <<>>
          ELSE <<Stripped(text, Head(chunks))>>)
         \o StripChunks(text, Tail(chunks))

\* the while loop from `start` on, for parameters with which it ends
RECURSIVE ChunkLoop(_, _, _, _, _)
ChunkLoop(text, chunk_size, overlap, start, chunks) ==
    IF start >= Len(text) THEN chunks
    ELSE IF start + chunk_size >= Len(text)
    THEN Append(chunks, Chunk(text, SliceIndex(start, Len(text)), Len(text)))
    ELSE With(ChunkEnd(text, chunk_size, start), LAMBDA end :
            ChunkLoop(text, chunk_size, overlap, NextStart(end, overlap),
                      Append(chunks, Chunk(text, SliceIndex(start, Len(text)),
                                           SliceIndex(end, Len(text))))))

chunk_text(text, chunk_size, overlap) ==
    IF Len(text) <= chunk_size THEN <<Chunk(text, 0, Len(text))>>
    ELSE StripChunks(text, ChunkLoop(text, chunk_size, overlap, 0, <<>>))

(***************************************************************************)
(* Calls of chunk_text, one pass of its loop at a time.                    *)
(***************************************************************************)
MaxTextLen == 5

MaxChunkSize == 3

MaxChunks == 8

RECURSIVE TextsOver(_, _)
TextsOver(alphabet, n) ==
    IF n = 0 THEN { <<>> }
    ELSE TextsOver(alphabet, n - 1)
         \cup { Append(t, c) : t \in { u \in TextsOver(alphabet, n - 1) : Len(u) = n - 1 },
                               c \in alphabet }

\* a text of 2,500 letters with periods and blanks at the given positions
ScenarioText(periods, blanks) ==
    SubSeq([i \in 1..2500 |-> IF (i - 1) \in periods THEN "."
                              ELSE IF (i - 1) \in blanks THEN " " ELSE "a"],
           1, 2500)

ScenarioTexts ==
    { ScenarioText(periods, blanks) :
        periods \in { {}, {500}, {501}, {600}, {999}, {1400}, 0..2499 },
        blanks \in { {}, 0..999, 900..1199, 0..2499 } }

\* the calls: short texts with every chunk size and overlap up to the
\* bounds; sentences in windows wide enough for the cut to move (chunk sizes
\* from 4 on, each with the overlaps 0 <= overlap < chunk_size); and
\* chunk_text(text, chunk_size=1000, overlap=200) of 2,500-character texts
InitChunk ==
    /\ pc = "call"
    /\ \/ \E t \in TextsOver({"a", ".", " "}, MaxTextLen),
              cs \in 0..MaxChunkSize, ov \in -1..MaxChunkSize :
                call = [fn |-> "chunk_text", text |-> t, chunk_size |-> cs, overlap |-> ov]
       \/ \E t \in TextsOver({"a", "."}, MaxTextLen + 2), cs \in 4..(MaxChunkSize + 3) :
            \E ov \in 0..(cs - 1) :
                call = [fn |-> "chunk_text", text |-> t, chunk_size |-> cs, overlap |-> ov]
       \/ \E t \in ScenarioTexts :
                call = [fn |-> "chunk_text", text |-> t, chunk_size |-> 1000, overlap |-> 200]
    /\ ret = NotCalled

\* a start that enters the loop for every text
ChunkStart_without_shortcut ==
    /\ pc = "call"
    /\ call.fn = "chunk_text"
    /\ ret' = [kind |-> "running", start |-> 0, chunks |-> <<>>]
    /\ pc' = "while"
    /\ UNCHANGED call

\* `if len(text) <= chunk_size: return [text]`, then `chunks = []; start = 0`
ChunkStart ==
    /\ pc = "call"
    /\ call.fn = "chunk_text"
    /\ IF Len(call.text) <= call.chunk_size
       THEN ret' = Return(<<Chunk(call.text, 0, Len(call.text))>>) /\ pc' = "done"
       ELSE ret' = [kind |-> "running", start |-> 0, chunks |-> <<>>] /\ pc' = "while"
    /\ UNCHANGED call

\* one pass of the while loop; the last pass breaks and returns
ChunkPass ==
    /\ pc = "while"
    /\ ret.start < Len(call.text)
    /\ Len(ret.chunks) < MaxChunks
    /\ LET n == Len(call.text)
       IN  IF ret.start + call.chunk_size >= n
           THEN /\ ret' = Return(StripChunks(call.text,
                            Append(ret.chunks,
                                   Chunk(call.text, SliceIndex(ret.start, n), n))))
                /\ pc' = "done"
           ELSE LET end == ChunkEnd(call.text, call.chunk_size, ret.start)
                IN  /\ ret' = [ret EXCEPT
                                !.start = NextStart(end, call.overlap),
                                !.chunks = Append(@, Chunk(call.text,
                                                           SliceIndex(ret.start, n),
                                                           SliceIndex(end, n)))]
                    /\ pc' = "while"
    /\ UNCHANGED call

\* the loop condition fails: the return statement
ChunkReturn ==
    /\ pc = "while"
    /\ ret.start >= Len(call.text)
    /\ ret' = Return(StripChunks(call.text, ret.chunks))
    /\ pc' = "done"
    /\ UNCHANGED call

NextChunk == ChunkStart \/ ChunkPass \/ ChunkReturn

SpecChunk == InitChunk /\ [][NextChunk]_vars

ChunkDone == pc = "done" /\ call.fn = "chunk_text"

\* every position of the text that holds no white space is inside a
\* returned chunk
Covered(text, chunks) ==
    \A i \in 0..(Len(text) - 1) :
        ~IsSpace(text[i + 1]) =>
            \E k \in 1..Len(chunks) : chunks[k].from <= i /\ i < chunks[k].to

(***************************************************************************)
(* C20: coverage law of chunk_text: for every text, chunk size and overlap *)
(* for which chunk_text returns, every position of the text that holds a   *)
(* character other than white space lies inside a returned chunk.          *)
(***************************************************************************)
C20_Coverage == ChunkDone => Covered(call.text, ret.value)

\* the law for overlaps that are not negative
C20_CoverageOfOverlaps ==
    (ChunkDone /\ call.overlap >= 0) => Covered(call.text, ret.value)

\* a text cut at a sentence end into chunks that overlap, one of them
\* stripped of white space
C20_Witness ==
    /\ ChunkDone
    /\ call.overlap = 1
    /\ call.chunk_size = 3
    /\ Len(ret.value) >= 2
    /\ \E k \in 1..Len(ret.value) : ret.value[k].to - ret.value[k].from < 3
    /\ "." \in Range(call.text)
    /\ " " \in Range(call.text)

(***************************************************************************)
(* WARCTextProcessor.process_warc_record.  What extract_html_from_warc and *)
(* clean_html_text make of the WARC bytes is given with the call: the HTML *)
(* (None when the extraction fails) and the dict of the cleaned text.      *)
(***************************************************************************)
\* len(text.split()): the runs of characters that are not white space
WordCount(text) ==
    Cardinality({ i \in 1..Len(text) :
                    ~IsSpace(text[i]) /\ (i = 1 \/ IsSpace(text[i - 1])) })

\* the dict that clean_html_text returns for a title and a cleaned text
CleanedHtml(title, text) ==
    [title |-> title, text |-> text, word_count |-> WordCount(text),
     char_count |-> Len(text)]

\* the defaults of chunk_text
CHUNK_SIZE == 1000

CHUNK_OVERLAP == 100

MIN_WORDS_WITH_TITLE == 5

MIN_WORDS_WITHOUT_TITLE == 10

\* a threshold that does not ask for a title
min_words_of_titled(result) == MIN_WORDS_WITH_TITLE

\* min_words = 5 if result.get("title") else 10
min_words(result) ==
    IF result.title # <<>> THEN MIN_WORDS_WITH_TITLE ELSE MIN_WORDS_WITHOUT_TITLE

process_warc_record(html, result, include_chunks) ==
    IF html = None \/ html[1] = <<>> THEN Return(None)
    ELSE IF result.word_count < min_words(result) THEN Return(None)
    ELSE Return(Some(
            [title |-> result.title, text |-> result.text,
             word_count |-> result.word_count, char_count |-> result.char_count,
             chunks |->
                IF include_chunks /\ result.text # <<>>
                THEN With(chunk_text(result.text, CHUNK_SIZE, CHUNK_OVERLAP), LAMBDA chunks :
                        [k \in 1..Len(chunks) |-> chunks[k].chunk])
                ELSE <<>>]))

MaxWords == 12

\* a text of n words
RECURSIVE WordsText(_, _, _)
WordsText(n, word, space) ==
    IF n = 0 THEN <<>>
    ELSE IF n = 1 THEN word
    ELSE WordsText(n - 1, word, space) \o space \o word

ProcessCalls ==
    { [fn |-> "process_warc_record", html |-> html,
       result |-> CleanedHtml(title, WordsText(n, word, <<" ">>)),
       include_chunks |-> chunks] :
        html \in { None, Some(<<>>), Some(<<"<", "p", ">">>) },
        title \in { <<>>, <<"T">> },
        n \in 0..MaxWords,
        word \in { <<"w">>, <<"w", ".", "\n">> },
        chunks \in BOOLEAN }

InitProcess ==
    /\ pc = "call"
    /\ call \in ProcessCalls
    /\ ret = NotCalled

\* processor.process_warc_record(warc_content, base_url, include_chunks)
CallProcess ==
    /\ pc = "call"
    /\ call.fn = "process_warc_record"
    /\ ret' = process_warc_record(call.html, call.result, call.include_chunks)
    /\ pc' = "done"
    /\ UNCHANGED call

NextProcess == CallProcess

SpecProcess == InitProcess /\ [][NextProcess]_vars

ProcessDone == pc = "done" /\ call.fn = "process_warc_record"

(***************************************************************************)
(* C19: process_warc_record returns a result other than None only if the   *)
(* cleaned text has at least 5 words when a title that is not empty was    *)
(* extracted, and at least 10 words otherwise; for content below that      *)
(* threshold it returns None.                                              *)
(***************************************************************************)
C19_WordThreshold ==
    ProcessDone =>
        LET words == WordCount(call.result.text)
            enough == IF call.result.title = <<>> THEN words >= 10 ELSE words >= 5
        IN  /\ ret.kind = "return"
            /\ ret.value # None => enough
            /\ ~enough => ret.value = None

\* a result for a titled text of exactly five words
C19_Witness ==
    /\ ProcessDone
    /\ call.result.title # <<>>
    /\ WordCount(call.result.text) = 5
    /\ ret.value # None
    /\ ret.value[1].word_count = 5

(***************************************************************************)
(* C21: chunk_text never returns an empty or white-space-only chunk, for   *)
(* every text (the empty text and white-space-only texts included), every  *)
(* chunk size and every overlap.                                           *)
(***************************************************************************)
C21_NoBlankChunk ==
    ChunkDone => \A k \in 1..Len(ret.value) : ~AllChars(ret.value[k].chunk, IsSpace)

(***************************************************************************)
(* C22: for every text whose length is at most the chunk size, chunk_text  *)
(* returns the one-element list [text], the text neither trimmed nor       *)
(* split.                                                                  *)
(***************************************************************************)
C22_ShortTextUnchanged ==
    (ChunkDone /\ Len(call.text) <= call.chunk_size) =>
        /\ Len(ret.value) = 1
        /\ ret.value[1].chunk = call.text

\* a short text with white space at both ends came back as it was
C22_Witness ==
    /\ ChunkDone
    /\ call.text = <<" ", "a", " ">>
    /\ call.chunk_size = 3
    /\ ret.value[1].chunk = <<" ", "a", " ">>

\* a returned call of the scenario: 2,500 characters, chunk_size=1000,
\* overlap=200
ScenarioDone ==
    /\ ChunkDone
    /\ Len(call.text) = 2500
    /\ call.chunk_size = 1000
    /\ call.overlap = 200

\* the characters two adjacent returned chunks share
Shared(chunks, k) == chunks[k].to - chunks[k + 1].from

(***************************************************************************)
(* C23: chunking a 2,500-character text with chunk_size=1000 and           *)
(* overlap=200 yields exactly 3 chunks; every chunk chunk_text returns has *)
(* at most chunk_size characters, and each two adjacent chunks share about *)
(* `overlap` (200) characters of text (here: 200, less what stripping took *)
(* from the shared edge).                                                  *)
(***************************************************************************)
C23_ThreeChunks ==
    /\ ScenarioDone => Len(ret.value) = 3
    /\ ChunkDone => \A k \in 1..Len(ret.value) :
                        Len(ret.value[k].chunk) <= call.chunk_size
    /\ ScenarioDone => \A k \in 1..(Len(ret.value) - 1) :
                        Shared(ret.value, k) <= call.overlap

\* no cut of the scenario is moved back to a period: the last period of the
\* first two windows, if any, is in the first half or at the window's end
CutsAtWindowEnds(text) ==
    \A start \in {0, 800} :
        LET sentence_end == rfind(text, ".", start, start + 1000)
        IN  sentence_end <= start + 500 \/ sentence_end = start + 999

\* each of the three windows holds a character that is not white space
NoBlankWindow(text) ==
    \A start \in {0, 800, 1600} :
        \E i \in start..Min({start + 999, Len(text) - 1}) : ~IsSpace(text[i + 1])

\* the claim, with the count for the texts whose cuts stay at the window
\* ends and whose windows are not blank, and the shared text spelled out
C23_ThreeChunksAtWindowEnds ==
    /\ (ScenarioDone /\ CutsAtWindowEnds(call.text) /\ NoBlankWindow(call.text))
           => Len(ret.value) = 3
    /\ ChunkDone => \A k \in 1..Len(ret.value) :
                        Len(ret.value[k].chunk) <= call.chunk_size
    /\ ScenarioDone => \A k \in 1..(Len(ret.value) - 1) :
                        /\ Shared(ret.value, k) <= call.overlap
                        /\ AllChars(call.text, LAMBDA c : ~IsSpace(c))
                               => Shared(ret.value, k) = call.overlap

\* the scenario without periods and blanks: windows 0..1000, 800..1800,
\* 1600..2500
C23_Witness ==
    /\ ScenarioDone
    /\ call.text = ScenarioText({}, {})
    /\ Len(ret.value) = 3
    /\ ret.value[2].from = 800
    /\ ret.value[2].to = 1800
    /\ Shared(ret.value, 2) = 200

(***************************************************************************)
(* C25: chunk_text terminates for every text, every chunk_size > 0 and     *)
(* every overlap with 0 <= overlap < chunk_size: the window start strictly *)
(* increases on every pass of the loop, also on a pass whose cut was moved *)
(* back to a sentence-ending period.                                       *)
(***************************************************************************)
C25_StartIncreases ==
    [][(/\ pc = "while"
        /\ pc' = "while"
        /\ call.chunk_size > 0
        /\ 0 <= call.overlap
        /\ call.overlap < call.chunk_size) => ret'.start > ret.start]_vars

(***************************************************************************)
(* CCAthenaClient._execute_query, _wait_for_completion and                 *)
(* _get_query_results, one request to the Athena service at a time.  The   *)
(* service answers every request; what get_query_execution reports and how *)
(* long it takes is the environment's choice.  `requests` are the requests *)
(* sent so far, `observed` the statuses read, `now` is time.time() -       *)
(* start_time in seconds.                                                  *)
(***************************************************************************)
\* response["QueryExecution"]["Status"]["State"]; PAUSED stands for every
\* string the loop does not name
QueryStates == { "QUEUED", "RUNNING", "SUCCEEDED", "FAILED", "CANCELLED", "PAUSED" }

\* time.sleep(2)
SLEEP_SECONDS == 2

\* AthenaSettings.timeout_seconds, up to
MaxTimeout == 5

\* the seconds one get_query_execution may take, up to
MaxLatency == 1

\* a pass that cancels a query whose status it does not know
wait_pass_cancel_unknown(status, elapsed, timeout_seconds) ==
    IF status = "SUCCEEDED" THEN [exit |-> "return", stop |-> FALSE]
    ELSE IF status \in {"FAILED", "CANCELLED"} THEN [exit |-> "failed", stop |-> FALSE]
    ELSE IF status \in {"QUEUED", "RUNNING"}
    THEN IF elapsed > timeout_seconds
         THEN [exit |-> "timed out", stop |-> TRUE]
         ELSE [exit |-> "sleep", stop |-> FALSE]
    ELSE [exit |-> "unknown", stop |-> TRUE]

\* a pass that takes every status but FAILED and CANCELLED for success
wait_pass_unknown_succeeds(status, elapsed, timeout_seconds) ==
    IF status \in {"FAILED", "CANCELLED"} THEN [exit |-> "failed", stop |-> FALSE]
    ELSE IF status \in {"QUEUED", "RUNNING"}
    THEN IF elapsed > timeout_seconds
         THEN [exit |-> "timed out", stop |-> TRUE]
         ELSE [exit |-> "sleep", stop |-> FALSE]
    ELSE [exit |-> "return", stop |-> FALSE]

\* the branch one pass of `while True` takes for the status it read, and
\* whether it sends stop_query_execution
wait_pass(status, elapsed, timeout_seconds) ==
    IF status = "SUCCEEDED" THEN [exit |-> "return", stop |-> FALSE]
    ELSE IF status \in {"FAILED", "CANCELLED"} THEN [exit |-> "failed", stop |-> FALSE]
    ELSE IF status \in {"QUEUED", "RUNNING"}
    THEN IF elapsed > timeout_seconds
         THEN [exit |-> "timed out", stop |-> TRUE]
         ELSE [exit |-> "sleep", stop |-> FALSE]
    ELSE [exit |-> "unknown", stop |-> FALSE]

\* the message of the AthenaQueryError a pass raises
WaitError(exit) ==
    CASE exit = "failed" -> "Query failed"
      [] exit = "timed out" -> "Query timed out"
      [] exit = "unknown" -> "Unknown query status"

WaitCalls ==
    { [fn |-> "_execute_query", timeout_seconds |-> t] : t \in 0..MaxTimeout }

InitWait ==
    /\ pc = "call"
    /\ call \in WaitCalls
    /\ ret = NotCalled

\* start_query_execution, then `start_time = time.time()`
ExecuteQuery ==
    /\ pc = "call"
    /\ call.fn = "_execute_query"
    /\ ret' = [kind |-> "running", requests |-> <<"start_query_execution">>,
               observed |-> <<>>, now |-> 0, elapsed |-> 0]
    /\ pc' = "wait"
    /\ UNCHANGED call

\* one pass of the loop of _wait_for_completion
WaitPass ==
    /\ pc = "wait"
    /\ \E status \in QueryStates, latency \in 0..MaxLatency :
        LET now == ret.now + latency
            pass == wait_pass(status, now, call.timeout_seconds)
            polled == [ret EXCEPT !.requests = Append(@, "get_query_execution"),
                                  !.observed = Append(@, status),
                                  !.now = now]
            elapsed == IF status \in {"QUEUED", "RUNNING"} THEN now ELSE ret.elapsed
            stopped == IF pass.stop
                       THEN Append(polled.requests, "stop_query_execution")
                       ELSE polled.requests
        IN  CASE pass.exit = "return" ->
                    /\ ret' = polled
                    /\ pc' = "results"
              [] pass.exit = "sleep" ->
                    /\ ret' = [polled EXCEPT !.elapsed = elapsed,
                                             !.now = now + SLEEP_SECONDS]
                    /\ pc' = "wait"
              [] OTHER ->
                    /\ ret' = [kind |-> "raise", exc |-> "AthenaQueryError",
                               msg |-> WaitError(pass.exit), value |-> <<>>,
                               requests |-> stopped, observed |-> polled.observed,
                               now |-> now, elapsed |-> elapsed]
                    /\ pc' = "done"
    /\ UNCHANGED call

\* _execute_query has returned the execution id: _get_query_results
GetQueryResults ==
    /\ pc = "results"
    /\ ret' = [kind |-> "return", value |-> <<>>,
               requests |-> Append(ret.requests, "get_query_results"),
               observed |-> ret.observed, now |-> ret.now, elapsed |-> ret.elapsed]
    /\ pc' = "done"
    /\ UNCHANGED call

NextWait == ExecuteQuery \/ WaitPass \/ GetQueryResults

SpecWait == InitWait /\ [][NextWait]_vars

\* the client runs on: a pass that can be taken is taken
SpecWaitFair == SpecWait /\ WF_vars(NextWait)

WaitDone == pc = "done" /\ call.fn = "_execute_query"

\* how often a request was sent
Sent(requests, name) == Cardinality({ i \in 1..Len(requests) : requests[i] = name })

TimedOut == WaitDone /\ ret.kind = "raise" /\ ret.msg = "Query timed out"

\* what the wait guarantees about stop_query_execution in every state
CancelsOnlyOnTimeout ==
    (call.fn = "_execute_query" /\ pc # "call") =>
        /\ Sent(ret.requests, "stop_query_execution") <= 1
        /\ Sent(ret.requests, "stop_query_execution") = 1 <=> TimedOut
        /\ TimedOut =>
            /\ ret.elapsed > call.timeout_seconds
            /\ ret.requests[Len(ret.requests)] = "stop_query_execution"
            /\ Range(ret.observed) \subseteq {"QUEUED", "RUNNING"}
        /\ pc = "wait" => ret.elapsed <= call.timeout_seconds

(***************************************************************************)
(* C26: the wait for a query is bounded by the timeout and cancels before  *)
(* failing: while the execution reports no terminal status, the loop goes  *)
(* on only as long as the elapsed time it read is within timeout_seconds;  *)
(* once it reads more, it sends stop_query_execution exactly once and then *)
(* raises the timeout error; no other exit (success, failed, cancelled,    *)
(* unknown status) sends a cancellation; and every wait ends.              *)
(***************************************************************************)
C26_WaitBoundedAndCancelled == []CancelsOnlyOnTimeout /\ <>WaitDone

\* a wait that saw RUNNING until the time was up, and cancelled
C26_Witness ==
    /\ TimedOut
    /\ Len(ret.observed) >= 2
    /\ Sent(ret.requests, "stop_query_execution") = 1

(***************************************************************************)
(* C27: _wait_for_completion returns normally only after observing status  *)
(* SUCCEEDED; an observed FAILED, CANCELLED or unknown status, or a        *)
(* timeout, ends the wait with a query execution error; the query is not   *)
(* submitted again; and _get_query_results is called only after the wait   *)
(* returned normally.                                                      *)
(***************************************************************************)
C27_SucceededOrError ==
    (call.fn = "_execute_query" /\ pc # "call") =>
        LET last == IF ret.observed = <<>> THEN "none"
                    ELSE ret.observed[Len(ret.observed)]
        IN  /\ pc = "results" => last = "SUCCEEDED"
            /\ (WaitDone /\ ret.kind = "return") => last = "SUCCEEDED"
            /\ (last \in {"FAILED", "CANCELLED", "PAUSED"} \/ TimedOut) =>
                    /\ WaitDone
                    /\ ret.kind = "raise"
                    /\ ret.exc = "AthenaQueryError"
            /\ last = "SUCCEEDED" => ret.kind # "raise"
            /\ Sent(ret.requests, "start_query_execution") = 1
            /\ Sent(ret.requests, "get_query_results") > 0 =>
                    /\ last = "SUCCEEDED"
                    /\ ret.requests[Len(ret.requests)] = "get_query_results"
                    /\ Sent(ret.requests, "get_query_results") = 1

\* results read after a wait that saw QUEUED, RUNNING, SUCCEEDED
C27_Witness ==
    /\ WaitDone
    /\ ret.kind = "return"
    /\ ret.observed = <<"QUEUED", "RUNNING", "SUCCEEDED">>
    /\ ret.requests[Len(ret.requests)] = "get_query_results"

(***************************************************************************)
(* CCAthenaClient._row_to_crawl_record and the loop of search_with_filter  *)
(* that maps the rows of a result set.  A row is a list of cells, a cell a *)
(* str; the cells are url, url_host_name, fetch_time, fetch_status,        *)
(* content_mime_type, content_charset, content_languages, warc_filename,   *)
(* warc_record_offset, warc_record_length.                                 *)
(***************************************************************************)
\* `int(cell) if cell and cell.isdigit() else 0`
IntOrZero(cell) == IF isdigit(cell) THEN int(cell) ELSE 0

\* fetch_time.split(" ")[0].replace("-", "") when fetch_time holds a blank
RowTimestamp(fetch_time) ==
    IF " " \in Range(fetch_time)
    THEN replace_str(SubSeq(fetch_time, 1,
                            Min({ i \in 1..Len(fetch_time) : fetch_time[i] = " " }) - 1),
                     <<"-">>, <<>>)
    ELSE <<>>

\* HttpUrl: a scheme http or https and a host
IsHttpUrl(url) ==
    \/ At(<<"h", "t", "t", "p", ":", "/", "/">>, url, 1) /\ Len(url) > 7
    \/ At(<<"h", "t", "t", "p", "s", ":", "/", "/">>, url, 1) /\ Len(url) > 8

\* the validation of CrawlRecord: its Field constraints and validate_timestamp
CrawlRecordValid(record) ==
    /\ IsHttpUrl(record.url)
    /\ Len(record.timestamp) \in {4, 6, 8, 10, 12, 14}
    /\ record.status >= 100
    /\ record.status <= 599
    /\ record.length >= 0
    /\ record.offset >= 0

\* None for a short row and for a row whose CrawlRecord does not validate
\* (ValidationError is a ValueError)
_row_to_crawl_record(row) ==
    IF Len(row) < 10 THEN None
    ELSE With([url |-> row[1],
               urlkey |-> replace_str(replace_str(row[1],
                              <<"h", "t", "t", "p", "s", ":", "/", "/">>, <<>>),
                              <<"h", "t", "t", "p", ":", "/", "/">>, <<>>),
               timestamp |-> RowTimestamp(row[3]),
               status |-> IntOrZero(row[4]),
               mime |-> row[5],
               length |-> IntOrZero(row[10]),
               offset |-> IntOrZero(row[9]),
               filename |-> row[8]],
              LAMBDA record : IF CrawlRecordValid(record) THEN Some(record) ELSE None)

\* the cells that do not matter here
ROW_URL == <<"h", "t", "t", "p", ":", "/", "/", "a">>

FETCH_TIME == <<"2", "0", "2", "4", "-", "0", "8", "-", "0", "1", " ", "0", "0", ":", "0", "0">>

\* rows of 9 and of 10 cells
RowSamples ==
    { SubSeq(<<ROW_URL, <<"a">>, fetch_time, fetch_status, <<"t">>, <<>>, <<>>,
               <<"f">>, offset, length>>, 1, cells) :
        fetch_time \in { FETCH_TIME, <<>> },
        fetch_status \in { <<"2", "0", "0">>, <<"-">>, <<>> },
        offset \in { <<"7">>, <<"x">> },
        length \in { <<"1", "2">>, <<>> },
        cells \in {9, 10} }

MaxRows == 2

\* result sets of up to MaxRows rows
InitRows ==
    /\ pc = "call"
    /\ \E n \in 0..MaxRows : \E rows \in [1..n -> RowSamples] :
            call = [fn |-> "rows", results |-> rows]
    /\ ret = NotCalled

\* `records = []`
RowsStart ==
    /\ pc = "call"
    /\ call.fn = "rows"
    /\ ret' = [kind |-> "running", at |-> 1, records |-> <<>>]
    /\ pc' = "loop"
    /\ UNCHANGED call

\* `record = self._row_to_crawl_record(row); if record: records.append(record)`
RowsPass ==
    /\ pc = "loop"
    /\ call.fn = "rows"
    /\ ret.at <= Len(call.results)
    /\ ret' = [ret EXCEPT !.at = @ + 1,
                          !.records = @ \o _row_to_crawl_record(call.results[ret.at])]
    /\ UNCHANGED <<pc, call>>

\* `return records`
RowsReturn ==
    /\ pc = "loop"
    /\ call.fn = "rows"
    /\ ret.at > Len(call.results)
    /\ ret' = Return(ret.records)
    /\ pc' = "done"
    /\ UNCHANGED call

NextRows == RowsStart \/ RowsPass \/ RowsReturn

SpecRows == InitRows /\ [][NextRows]_vars

RowsDone == pc = "done" /\ call.fn = "rows"

\* a row whose url and fetch_time are what the index holds
WellFormedRow(row) == IsHttpUrl(row[1]) /\ " " \in Range(row[3])

(***************************************************************************)
(* C28: _row_to_crawl_record yields no record for a row with fewer than 10 *)
(* cells, and for every row with at least 10 cells (here: with the url and *)
(* the fetch time of an index row) it yields a CrawlRecord in which a      *)
(* non-numeric status, offset or length cell has been replaced by 0: the   *)
(* row is mapped, not skipped, and every row of the result set is reached. *)
(***************************************************************************)
C28_RowsMappedWithZero ==
    (RowsDone /\ \A i \in 1..Len(call.results) :
                    Len(call.results[i]) >= 10 => WellFormedRow(call.results[i])) =>
        LET long == SelectSeq(call.results, LAMBDA row : Len(row) >= 10)
        IN  /\ Len(ret.value) = Len(long)
            /\ \A k \in 1..Len(long) :
                /\ ret.value[k].url = long[k][1]
                /\ ret.value[k].status = IntOrZero(long[k][4])
                /\ ret.value[k].offset = IntOrZero(long[k][9])
                /\ ret.value[k].length = IntOrZero(long[k][10])

(***************************************************************************)
(* WARCTextProcessor.extract_html_from_warc, on the decoded record         *)
(* (decode("utf-8", errors="replace") does not raise).                     *)
(***************************************************************************)
\* s.find(sub), 0-based, -1 when sub does not occur
find_str(s, sub) ==
    With({ i \in 1..Len(s) : At(sub, s, i) }, LAMBDA at :
        IF at = {} THEN -1 ELSE Min(at) - 1)

\* a split at every occurrence of the separator
RECURSIVE split_every(_, _, _)
split_every(text, sep, maxsplit) ==
    With(find_str(text, sep), LAMBDA pos :
        IF pos = -1 THEN <<text>>
        ELSE <<SubSeq(text, 1, pos)>>
             \o split_every(SubSeq(text, pos + Len(sep) + 1, Len(text)), sep, maxsplit))

\* text.split(sep, maxsplit)
RECURSIVE split(_, _, _)
split(text, sep, maxsplit) ==
    With(find_str(text, sep), LAMBDA pos :
        IF maxsplit = 0 \/ pos = -1 THEN <<text>>
        ELSE <<SubSeq(text, 1, pos)>>
             \o split(SubSeq(text, pos + Len(sep) + 1, Len(text)), sep, maxsplit - 1))

CRLF == <<"\r", "\n">>

HTML_MARKERS ==
    { <<"<", "!", "D", "O", "C", "T", "Y", "P", "E">>,
      <<"<", "h", "t", "m", "l">>,
      <<"<", "H", "T", "M", "L">>,
      <<"<", "h", "e", "a", "d">>,
      <<"<", "b", "o", "d", "y">> }

extract_html_from_warc(text) ==
    With(split(text, CRLF \o CRLF, 2), LAMBDA parts :
        IF Len(parts) < 3 THEN None
        ELSE With({ find_str(parts[3], marker) : marker \in HTML_MARKERS } \ {-1},
                  LAMBDA found :
                    IF found # {}
                    THEN Some(SubSeq(parts[3], Min(found) + 1, Len(parts[3])))
                    ELSE Some(parts[3])))

\* decoded records: MaxTokens pieces, each a line end, a blank line, a
\* marker, other text or nothing
MaxTokens == 5

WarcTokens ==
    { <<"<", "!", "D", "O", "C", "T", "Y", "P", "E">>, <<"<", "h", "t", "m", "l">>,
      <<"<", "b", "o", "d", "y">>, CRLF, CRLF \o CRLF, <<"x">>, <<>> }

RECURSIVE Concat(_)
Concat(pieces) ==
    IF pieces = <<>> THEN <<>> ELSE Head(pieces) \o Concat(Tail(pieces))

InitExtract ==
    /\ pc = "call"
    /\ \E tokens \in [1..MaxTokens -> WarcTokens] :
            call = [fn |-> "extract_html_from_warc", text |-> Concat(tokens)]
    /\ ret = NotCalled

CallExtract ==
    /\ pc = "call"
    /\ call.fn = "extract_html_from_warc"
    /\ ret' = Return(extract_html_from_warc(call.text))
    /\ pc' = "done"
    /\ UNCHANGED call

NextExtract == CallExtract

SpecExtract == InitExtract /\ [][NextExtract]_vars

ExtractDone == pc = "done" /\ call.fn = "extract_html_from_warc"

\* the positions (1-based) where a CRLF-CRLF boundary starts
Boundaries(text) == { i \in 1..Len(text) : At(CRLF \o CRLF, text, i) }

\* the text after the second boundary, the second one sought after the end
\* of the first; None when there are not two
ThirdPart(text) ==
    IF Boundaries(text) = {} THEN None
    ELSE LET first == Min(Boundaries(text))
             later == { i \in Boundaries(text) : i >= first + 4 }
         IN  IF later = {} THEN None
             ELSE Some(SubSeq(text, Min(later) + 4, Len(text)))

\* a marker starts at position i (1-based) of s
MarkerAt(s, i) == \E marker \in HTML_MARKERS : At(marker, s, i)

(***************************************************************************)
(* C29: extract_html_from_warc splits the decoded record at the first two  *)
(* CRLF-CRLF boundaries only: with fewer than three parts it returns None; *)
(* otherwise the result is the suffix of the third part that starts at the *)
(* earliest occurrence of a document-start marker, or the whole third part *)
(* when no marker occurs; later CRLF-CRLF sequences stay in the result.    *)
(***************************************************************************)
C29_ThirdPartFromMarker ==
    ExtractDone =>
        LET third == ThirdPart(call.text)
        IN  IF third = None THEN ret.value = None
            ELSE LET payload == third[1]
                     starts == { i \in 1..Len(payload) : MarkerAt(payload, i) }
                 IN  IF starts = {} THEN ret.value = Some(payload)
                     ELSE ret.value = Some(SubSeq(payload, Min(starts), Len(payload)))

\* text before the marker is cut off and a blank line after it is kept
C29_Witness ==
    /\ ExtractDone
    /\ call.text = CRLF \o CRLF \o CRLF \o CRLF \o <<"x">>
                   \o <<"<", "b", "o", "d", "y">> \o CRLF \o CRLF
    /\ ret.value = Some(<<"<", "b", "o", "d", "y">> \o CRLF \o CRLF)

(***************************************************************************)
(* WARCTextProcessor._clean_text with _is_likely_ui_text and               *)
(* _is_mostly_urls.                                                        *)
(***************************************************************************)
\* `sub in s`
Contains(s, sub) == \E i \in 1..(Len(s) + 1) : At(sub, s, i)

\* re.sub(pattern, new, s) from position k on, for a pattern whose match
\* that starts at position i ends at ends[i] (0 when none starts there)
RECURSIVE Substitute(_, _, _, _)
Substitute(s, ends, new, k) ==
    With({ i \in k..Len(s) : ends[i] > 0 }, LAMBDA starts :
        IF starts = {} THEN SubSeq(s, k, Len(s))
        ELSE SubSeq(s, k, Min(starts) - 1) \o new
             \o Substitute(s, ends, new, ends[Min(starts)] + 1))

\* len(re.findall(...)) from position k on
RECURSIVE CountMatches(_, _)
CountMatches(ends, k) ==
    With({ i \in k..Len(ends) : ends[i] > 0 }, LAMBDA starts :
        IF starts = {} THEN 0
        ELSE 1 + CountMatches(ends, ends[Min(starts)] + 1))

\* the ends of the matches that start at the positions of s
MatchEnds(s, End(_)) == SubSeq([i \in 1..Len(s) |-> End(i)], 1, Len(s))

\* the last position of the run of white space that starts at i
SpaceEnd(s, i) ==
    Min({ j \in i..(Len(s) + 1) : j = Len(s) + 1 \/ ~IsSpace(s[j]) }) - 1

\* re.sub(r"\s+", " ", text)
collapse_whitespace(text) ==
    With(MatchEnds(text, LAMBDA i : IF IsSpace(text[i]) THEN SpaceEnd(text, i) ELSE 0),
         LAMBDA ends : Substitute(text, ends, <<" ">>, 1))

\* re.sub(r"\n\s*\n", "\n", text): a match runs from a newline to the last
\* newline of the white space that follows it
collapse_blank_lines(text) ==
    With(MatchEnds(text, LAMBDA i :
            IF text[i] # "\n" THEN 0
            ELSE Max({0} \cup { j \in (i + 1)..SpaceEnd(text, i) : text[j] = "\n" })),
         LAMBDA ends : Substitute(text, ends, <<"\n">>, 1))

\* self.cleanup_patterns applied in order; the third, r"^\s+|\s+$", strips
cleanup(text) == strip(collapse_blank_lines(collapse_whitespace(text)))

UI_INDICATORS ==
    { <<"c", "l", "i", "c", "k", " ", "h", "e", "r", "e">>,
      <<"r", "e", "a", "d", " ", "m", "o", "r", "e">>,
      <<"c", "o", "n", "t", "i", "n", "u", "e", " ", "r", "e", "a", "d", "i", "n", "g">>,
      <<"n", "e", "x", "t", " ", "p", "a", "g", "e">>,
      <<"p", "r", "e", "v", "i", "o", "u", "s", " ", "p", "a", "g", "e">>,
      <<"h", "o", "m", "e">>,
      <<"a", "b", "o", "u", "t">>,
      <<"c", "o", "n", "t", "a", "c", "t">>,
      <<"p", "r", "i", "v", "a", "c", "y", " ", "p", "o", "l", "i", "c", "y">>,
      <<"t", "e", "r", "m", "s", " ", "o", "f", " ", "s", "e", "r", "v", "i", "c", "e">>,
      <<"s", "u", "b", "s", "c", "r", "i", "b", "e">>,
      <<"l", "o", "g", "i", "n">>,
      <<"r", "e", "g", "i", "s", "t", "e", "r">>,
      <<"s", "i", "g", "n", " ", "u", "p">>,
      <<"f", "o", "l", "l", "o", "w", " ", "u", "s">>,
      <<"s", "h", "a", "r", "e">>,
      <<"t", "w", "e", "e", "t">>,
      <<"f", "a", "c", "e", "b", "o", "o", "k">>,
      <<"i", "n", "s", "t", "a", "g", "r", "a", "m">> }

_is_likely_ui_text(text) ==
    /\ Len(text) < 50
    /\ \E indicator \in UI_INDICATORS : Contains(lower(text), indicator)

\* the last position of the run of characters other than white space that
\* starts at k (k - 1 when there is none)
NonSpaceEnd(s, k) ==
    Min({ j \in k..(Len(s) + 1) : j = Len(s) + 1 \/ IsSpace(s[j]) }) - 1

\* where the match of r"https?://[^\s]+|www\.[^\s]+|\.[a-z]{2,6}(/|$)" that
\* starts at i ends, ignoring case; 0 when none starts there
UrlMatchEnd(s, i) ==
    LET low == lower(s)
        colon == IF At(<<"h", "t", "t", "p", "s">>, low, i) THEN i + 5 ELSE i + 4
        letters == Min({ j \in (i + 1)..(Len(s) + 1) :
                            j = Len(s) + 1 \/ ~IsAlpha(s[j]) }) - (i + 1)
    IN  IF /\ At(<<"h", "t", "t", "p">>, low, i)
           /\ At(<<":", "/", "/">>, s, colon)
           /\ NonSpaceEnd(s, colon + 3) >= colon + 3
        THEN NonSpaceEnd(s, colon + 3)
        ELSE IF At(<<"w", "w", "w", ".">>, low, i) /\ NonSpaceEnd(s, i + 4) >= i + 4
        THEN NonSpaceEnd(s, i + 4)
        ELSE IF s[i] = "." /\ letters >= 2 /\ letters <= 6
        THEN IF i + letters = Len(s) THEN i + letters
             ELSE IF s[i + letters + 1] = "/" THEN i + letters + 1
             ELSE 0
        ELSE 0

\* len(re.findall(url_pattern, text, re.IGNORECASE))
UrlCount(s) ==
    With(MatchEnds(s, LAMBDA i : UrlMatchEnd(s, i)), LAMBDA ends : CountMatches(ends, 1))

\* url_ratio = len(urls) / len(words) > 0.5
_is_mostly_urls(text) ==
    /\ WordCount(text) > 0
    /\ 2 * UrlCount(text) > WordCount(text)

\* "\n".join(lines)
RECURSIVE join_lines(_)
join_lines(lines) ==
    IF lines = <<>> THEN <<>>
    ELSE IF Len(lines) = 1 THEN lines[1]
    ELSE lines[1] \o <<"\n">> \o join_lines(Tail(lines))

\* the filter of the loop over the lines
Meaningful(line) ==
    /\ ~_is_mostly_urls(line)
    /\ Len(line) > 10
    /\ ~_is_likely_ui_text(line)

_clean_text(text) ==
    With(split(cleanup(text), <<"\n">>, -1), LAMBDA lines :
        join_lines(SelectSeq([i \in 1..Len(lines) |-> strip(lines[i])], Meaningful)))

\* texts of MaxPieces pieces: a short word, a word of 10 characters, a
\* sentence, a navigation phrase, a URL, a line end, a blank or nothing
MaxPieces == 4

CleanTokens ==
    { <<"s", "h", "o", "r", "t">>,
      <<"a", "b", "c", "d", "e", "f", "g", "h", "i", "j">>,
      <<"a", " ", "l", "o", "n", "g", " ", "l", "i", "n", "e", " ", "o", "f", " ", "t", "e", "x", "t">>,
      <<"a", "b", "o", "u", "t", " ", "u", "s", " ", "a", "n", "d", " ", "m", "o", "r", "e">>,
      <<"h", "t", "t", "p", ":", "/", "/", "a", ".", "i", "o", "/", "x">>,
      <<"\n">>,
      <<" ">>,
      <<>> }

InitClean ==
    /\ pc = "call"
    /\ \E tokens \in [1..MaxPieces -> CleanTokens] :
            call = [fn |-> "_clean_text", text |-> Concat(tokens)]
    /\ ret = NotCalled

CallClean ==
    /\ pc = "call"
    /\ call.fn = "_clean_text"
    /\ ret' = Return(_clean_text(call.text))
    /\ pc' = "done"
    /\ UNCHANGED call

NextClean == CallClean

SpecClean == InitClean /\ [][NextClean]_vars

CleanDone == pc = "done" /\ call.fn = "_clean_text"

\* the lines of the newline-separated text, stripped
InputLines(text) ==
    With(split(text, <<"\n">>, -1), LAMBDA lines :
        [i \in 1..Len(lines) |-> strip(lines[i])])

(***************************************************************************)
(* C30: _clean_text filters line by line: every line of the                *)
(* newline-separated text that is shorter than 10 characters is dropped,   *)
(* so that its content (where no other line holds the same characters)     *)
(* does not appear in the cleaned text, while the longer lines that are    *)
(* neither URL-dominated nor UI phrases are kept.                          *)
(***************************************************************************)
C30_ShortLinesDropped ==
    CleanDone =>
        LET lines == InputLines(call.text)
        IN  \A i \in 1..Len(lines) :
                /\ (/\ lines[i] # <<>>
                    /\ Len(lines[i]) < 10
                    /\ \A j \in 1..Len(lines) : j # i => ~Contains(lines[j], lines[i]))
                        => ~Contains(ret.value, lines[i])
                /\ (/\ Len(lines[i]) > 10
                    /\ ~_is_mostly_urls(lines[i])
                    /\ ~_is_likely_ui_text(lines[i]))
                        => Contains(ret.value, lines[i])

(***************************************************************************)
(* WARCTextProcessor.clean_html_text and _fallback_html_cleaning.  A       *)
(* document is a title (or none) and the elements of its body, each a tag  *)
(* and a text; Html(document) is its HTML text.  With BeautifulSoup the    *)
(* method works on the parsed document, without it (HAS_BS4 is False, or   *)
(* the parser raised) on the HTML text.                                    *)
(***************************************************************************)
\* self.remove_tags
REMOVE_TAGS ==
    { "script", "style", "nav", "header", "footer", "aside", "noscript", "meta",
      "link", "iframe", "embed", "object" }

\* the name of a tag, as a str
TagName(tag) ==
    CASE tag = "nav" -> <<"n", "a", "v">>
      [] tag = "script" -> <<"s", "c", "r", "i", "p", "t">>
      [] tag = "style" -> <<"s", "t", "y", "l", "e">>
      [] tag = "p" -> <<"p">>
      [] tag = "main" -> <<"m", "a", "i", "n">>
      [] tag = "title" -> <<"t", "i", "t", "l", "e">>
      [] tag = "head" -> <<"h", "e", "a", "d">>
      [] tag = "body" -> <<"b", "o", "d", "y">>
      [] tag = "html" -> <<"h", "t", "m", "l">>

Element(tag, text) == <<"<">> \o TagName(tag) \o <<">">> \o text
                      \o <<"<", "/">> \o TagName(tag) \o <<">">>

RECURSIVE Elements(_)
Elements(body) ==
    IF body = <<>> THEN <<>>
    ELSE Element(Head(body).tag, Head(body).text) \o Elements(Tail(body))

Html(document) ==
    Element("html",
        Element("head", IF document.title = None THEN <<>>
                        ELSE Element("title", document.title[1]))
        \o Element("body", Elements(document.body)))

\* the least position from k on at which sub starts in s; 0 when none
Position(s, sub, k) ==
    With({ i \in k..Len(s) : At(sub, s, i) }, LAMBDA at :
        IF at = {} THEN 0 ELSE Min(at))

\* group 1 of re.search(r"<title[^>]*>(.*?)</title>", html, I | S), sought
\* from position k on
RECURSIVE TitleMatch(_, _)
TitleMatch(html, k) ==
    With(Position(lower(html), <<"<">> \o TagName("title"), k), LAMBDA open :
        IF open = 0 THEN None
        ELSE LET gt == Position(html, <<">">>, open + 6)
                 close == IF gt = 0 THEN 0
                          ELSE Position(lower(html),
                                        <<"<", "/">> \o TagName("title") \o <<">">>, gt + 1)
             IN  IF close = 0 THEN TitleMatch(html, open + 1)
                 ELSE Some(SubSeq(html, gt + 1, close - 1)))

\* where the match of r"<(script|style)[^>]*>.*?</\1>" that starts at
\* position i ends, ignoring case; 0 when none starts there
ScriptEnd(html, low, i) ==
    LET names == { name \in {"script", "style"} : At(<<"<">> \o TagName(name), low, i) }
    IN  IF names = {} THEN 0
        ELSE LET name == TagName(CHOOSE n \in names : TRUE)
                 gt == Position(html, <<">">>, i + Len(name) + 1)
                 close == IF gt = 0 THEN 0
                          ELSE Position(low, <<"<", "/">> \o name \o <<">">>, gt + 1)
             IN  IF close = 0 THEN 0 ELSE close + Len(name) + 2

\* re.sub(r"<(script|style)[^>]*>.*?</\1>", "", html, flags=I | S)
remove_scripts(html) ==
    With(SubSeq(lower(html), 1, Len(html)), LAMBDA low :
        With(MatchEnds(html, LAMBDA i : IF html[i] = "<" THEN ScriptEnd(html, low, i) ELSE 0),
             LAMBDA ends : Substitute(html, ends, <<>>, 1)))

\* re.sub(r"<[^>]+>", " ", html)
strip_tags(html) ==
    With(MatchEnds(html, LAMBDA i :
            IF html[i] # "<" THEN 0
            ELSE With(Position(html, <<">">>, i + 1), LAMBDA gt :
                    IF gt > i + 1 THEN gt ELSE 0)),
         LAMBDA ends : Substitute(html, ends, <<" ">>, 1))

\* re.sub(r"&[a-zA-Z0-9]+;", "", text)
remove_entities(text) ==
    With(MatchEnds(text, LAMBDA i :
            IF text[i] # "&" THEN 0
            ELSE With(Min({ j \in (i + 1)..(Len(text) + 1) :
                              j = Len(text) + 1 \/ ~IsAlnum(text[j]) }),
                      LAMBDA semicolon :
                        IF semicolon > i + 1 /\ semicolon <= Len(text)
                           /\ text[semicolon] = ";"
                        THEN semicolon ELSE 0)),
         LAMBDA ends : Substitute(text, ends, <<>>, 1))

\* the four replace calls, then the removal of the other entities
decode_entities(text) ==
    remove_entities(
        replace_str(replace_str(replace_str(replace_str(text,
            <<"&", "a", "m", "p", ";">>, <<"&">>),
            <<"&", "l", "t", ";">>, <<"<">>),
            <<"&", "g", "t", ";">>, <<">">>),
            <<"&", "q", "u", "o", "t", ";">>, <<"\"">>))

_fallback_html_cleaning(html) ==
    With(TitleMatch(html, 1), LAMBDA title_match :
        CleanedHtml(IF title_match = None THEN <<>> ELSE strip(title_match[1]),
                    _clean_text(decode_entities(strip_tags(remove_scripts(html))))))

\* main_content: the first main element, else the body, after the elements
\* of self.remove_tags were decomposed
MainContent(body) ==
    With(SelectSeq(body, LAMBDA element : element.tag \notin REMOVE_TAGS), LAMBDA kept :
        IF \E i \in 1..Len(kept) : kept[i].tag = "main"
        THEN <<kept[Min({ i \in 1..Len(kept) : kept[i].tag = "main" })]>>
        ELSE kept)

\* main_content.get_text(separator="\n", strip=True)
get_text(elements) ==
    join_lines(SelectSeq([i \in 1..Len(elements) |-> strip(elements[i].text)],
                         LAMBDA text : text # <<>>))

\* the path with BeautifulSoup; the second extraction takes the p elements
\* inside the main content (the documents hold no links)
soup_cleaning(document) ==
    LET main_content == MainContent(document.body)
        cleaned_text == _clean_text(get_text(main_content))
        text_parts == SelectSeq([i \in 1..Len(main_content) |->
                                    IF main_content[i].tag = "p"
                                    THEN strip(main_content[i].text) ELSE <<>>],
                                LAMBDA text : text # <<>>)
    IN  CleanedHtml(IF document.title = None THEN <<>> ELSE strip(document.title[1]),
                    IF _is_mostly_urls(cleaned_text) /\ text_parts # <<>>
                    THEN _clean_text(join_lines(text_parts))
                    ELSE cleaned_text)

clean_html_text(has_bs4, document) ==
    IF ~has_bs4 THEN Return(_fallback_html_cleaning(Html(document)))
    ELSE Return(soup_cleaning(document))

\* the documents: a title or none, and up to MaxElements elements
MaxElements == 2

PARAGRAPH == <<"R", "e", "a", "l", " ", "c", "o", "n", "t", "e", "n", "t", " ", "h", "e", "r", "e", " ", "t", "h", "a", "t", " ", "i", "s", " ", "l", "o", "n", "g", " ", "e", "n", "o", "u", "g", "h", ".">>

ElementSamples ==
    { [tag |-> tag, text |-> text] :
        tag \in { "nav", "script", "p", "main" },
        text \in { <<"s", "k", "i", "p">>, PARAGRAPH, <<"h", "t", "t", "p", ":", "/", "/", "a", ".", "i", "o", "/", "x">> } }

InitCleanHtml ==
    /\ pc = "call"
    /\ \E has_bs4 \in BOOLEAN, title \in { None, Some(<<"T">>), Some(<<" ", "T", " ">>) },
          n \in 0..MaxElements :
            \E body \in [1..n -> ElementSamples] :
                call = [fn |-> "clean_html_text", has_bs4 |-> has_bs4,
                        document |-> [title |-> title, body |-> body]]
    /\ ret = NotCalled

CallCleanHtml ==
    /\ pc = "call"
    /\ call.fn = "clean_html_text"
    /\ ret' = clean_html_text(call.has_bs4, call.document)
    /\ pc' = "done"
    /\ UNCHANGED call

NextCleanHtml == CallCleanHtml

SpecCleanHtml == InitCleanHtml /\ [][NextCleanHtml]_vars

CleanHtmlDone == pc = "done" /\ call.fn = "clean_html_text"

\* <html><head><title>T</title></head><body><nav>skip</nav><p>Real content
\* here that is long enough.</p></body></html>
C24_Document ==
    [title |-> Some(<<"T">>),
     body |-> <<[tag |-> "nav", text |-> <<"s", "k", "i", "p">>],
                [tag |-> "p", text |-> PARAGRAPH]>>]

(***************************************************************************)
(* C24: clean_html_text always produces a result (it never raises),        *)
(* returns the <title> text as title, and its text never contains text     *)
(* that sits inside a removed element (script, style, nav, ...); the       *)
(* document of the example cleans to title T and a text that contains the  *)
(* paragraph and not `skip`.                                               *)
(***************************************************************************)
C24_RemovedElementsLeaveNoText ==
    CleanHtmlDone =>
        LET document == call.document
        IN  /\ ret.kind = "return"
            /\ ret.value.title = (IF document.title = None THEN <<>>
                                  ELSE strip(document.title[1]))
            /\ \A i \in 1..Len(document.body) :
                (/\ document.body[i].tag \in REMOVE_TAGS
                 /\ \A j \in 1..Len(document.body) :
                        document.body[j].tag \notin REMOVE_TAGS
                            => ~Contains(document.body[j].text, document.body[i].text))
                    => ~Contains(ret.value.text, document.body[i].text)
            /\ document = C24_Document =>
                /\ ret.value.title = <<"T">>
                /\ Contains(ret.value.text, PARAGRAPH)
                /\ ~Contains(ret.value.text, <<"s", "k", "i", "p">>)

====
